---- MODULE Spec2Model ----
(***************************************************************************)
(* Model of script.py: the workbook migration pipeline (identify_data,     *)
(* store_data, recreate_workbooks) and the formula reference rewriter      *)
(* fix_external_references.  Text is modelled by TLA+ strings, read one    *)
(* character at a time with SubSeq, so that the regular expressions and    *)
(* the text conversions are computed, character by character, as the code  *)
(* computes them.  The cell formatting functions of script.py              *)
(* (extract_cell_formatting_phase2, apply_formatting, fix_font_colors) and *)
(* those of test_excel_formatting.py are modelled on style records.        *)
(***************************************************************************)
EXTENDS Integers, Sequences, FiniteSets, TLC

VARIABLES
    excel_files,      \* script.py:15   the configured catalog (list of filenames)
    report_sheets,    \* script.py:16   a Python value: the configured set, or what
                      \* line 839 assigns
    exclude_sheets,   \* script.py:17
    new_base_path,    \* script.py:20   global, set by main
    formula,          \* argument of a direct call of fix_external_references
    parts,            \* how that argument was put together (path, filename, ...)
    rw_pc,            \* "call" before the call, "returned" / "raised" after it
    after_standard,   \* updated_formula after line 129
    after_indexed,    \* updated_formula after line 130
    updated_formula,  \* what the call returned (or the exception it raised)
    rewritten_again,  \* what a call with the returned text as its argument did
    pc,               \* where main is: "main", "identify", "store", "store_loop",
                      \* "recreate_loop", "fonts", "done" (returned), "failed",
                      \* "aborted" (returned at line 1119)
    error,            \* the exception that main caught at line 1151
    file_idx,         \* position of "for file in excel_files" in the running phase
    workbooks,        \* the input files: filename -> workbook
    workbook_data,    \* the snapshot returned by identify_data
    db,               \* the file excel_data.db
    output,           \* the files of the output directory: path -> workbook
    recreated_files,  \* local of recreate_workbooks, then of main
    fixed_files,      \* local of fix_workbook_fonts, then of main
    install_log,      \* which lines of recreate_workbooks set each cell of this
                      \* run: path -> sheet -> coordinate -> branch
    output_dir_exists, \* os.path.exists(output_dir)
    json_file,        \* the file workbook_identification.json
    unwritable,       \* the paths of the output directory that cannot be written
                      \* (held open by another program)
    save_log,         \* how each turn of the loop of recreate_workbooks ended in
                      \* this run: "saved", "save_failed" or "skipped"
    fmt_pc,           \* direct calls of the formatting functions: "start", then
                      \* what was called
    src_cell,         \* the style of the cell that is read
    fmt_record,       \* the formatting record that is applied
    target,           \* the style of the cell that is written
    color_string,        \* argument of a direct call of ensure_argb_format
    argb              \* what that call returned

config == <<excel_files, report_sheets, exclude_sheets>>
rw_vars == <<formula, parts, rw_pc, after_standard, after_indexed, updated_formula,
             rewritten_again>>
run_vars == <<pc, error, file_idx, workbooks, workbook_data, db, output,
              recreated_files, fixed_files, install_log, output_dir_exists, json_file,
              unwritable, save_log>>
fmt_vars == <<fmt_pc, src_cell, fmt_record, target, color_string, argb>>
vars == <<excel_files, report_sheets, exclude_sheets, new_base_path,
          formula, parts, rw_pc, after_standard, after_indexed, updated_formula,
          rewritten_again,
          pc, error, file_idx, workbooks, workbook_data, db, output,
          recreated_files, fixed_files, install_log, output_dir_exists, json_file,
          unwritable, save_log, fmt_pc, src_cell, fmt_record, target, color_string, argb>>

-----------------------------------------------------------------------------
(* Characters and strings *)

\* s[i-1:i]: the character at position i, "" outside the string
Chr(s, i) == IF i \in 1..Len(s) THEN SubSeq(s, i, i) ELSE ""

From(s, i) == IF i > Len(s) THEN "" ELSE SubSeq(s, i, Len(s))

Min(S) == CHOOSE x \in S : \A y \in S : x <= y

Max(S) == CHOOSE x \in S : \A y \in S : x >= y

UpperLetters == "ABCDEFGHIJKLMNOPQRSTUVWXYZ"

LowerLetters == "abcdefghijklmnopqrstuvwxyz"

DigitChars == {"0", "1", "2", "3", "4", "5", "6", "7", "8", "9"}

UpperChars == {Chr(UpperLetters, i) : i \in 1..Len(UpperLetters)}

LowerChars == {Chr(LowerLetters, i) : i \in 1..Len(LowerLetters)}

\* \s of the re module
SpaceChars == {" ", "\t", "\n", "\r", "\f"}

\* [\w\s-] of sheet_reference_pattern
LooseChars == UpperChars \cup LowerChars \cup DigitChars \cup {"_", "-"} \cup SpaceChars

\* [A-Z0-9:$] of standard_pattern and indexed_pattern
RangeChars == UpperChars \cup DigitChars \cup {":", "$"}

\* str.lower() on one character
LowerChar(c) ==
    IF c \in UpperChars
    THEN Chr(LowerLetters, CHOOSE i \in 1..Len(UpperLetters) : Chr(UpperLetters, i) = c)
    ELSE c

RECURSIVE lower(_)
lower(s) == IF s = "" THEN "" ELSE LowerChar(Chr(s, 1)) \o lower(From(s, 2))

\* s.replace(c, "") for a one-character c
RECURSIVE Remove(_, _)
Remove(s, c) ==
    IF s = "" THEN ""
    ELSE (IF Chr(s, 1) = c THEN "" ELSE Chr(s, 1)) \o Remove(From(s, 2), c)

\* sub in s
Contains(sub, s) ==
    \E i \in 0..(Len(s) - Len(sub)) : SubSeq(s, i + 1, i + Len(sub)) = sub

\* s.startswith(p)
startswith(s, p) == Len(s) >= Len(p) /\ SubSeq(s, 1, Len(p)) = p

endswith(s, p) == Len(s) >= Len(p) /\ SubSeq(s, Len(s) - Len(p) + 1, Len(s)) = p

\* first position >= from whose character is in set, Len(s)+1 when there is none
FirstIn(s, from, set) ==
    LET c == {j \in from..Len(s) : Chr(s, j) \in set}
    IN  IF c = {} THEN Len(s) + 1 ELSE Min(c)

\* first position >= from whose character is not in set (the end of a greedy run)
RunEnd(s, from, set) ==
    LET c == {j \in from..Len(s) : Chr(s, j) \notin set}
    IN  IF c = {} THEN Len(s) + 1 ELSE Min(c)

\* os.path.basename
basename(p) ==
    LET c == {j \in 1..Len(p) : Chr(p, j) = "/"}
    IN  IF c = {} THEN p ELSE From(p, Max(c) + 1)

\* os.path.splitext: <<root, ext>>, split at the last dot that follows a
\* character of the name that is not a dot
splitext(p) ==
    LET dots == {j \in 1..Len(p) : Chr(p, j) = "." /\ \E k \in 1..(j - 1) : Chr(p, k) # "."}
    IN  IF dots = {} THEN <<p, "">>
        ELSE <<SubSeq(p, 1, Max(dots) - 1), From(p, Max(dots))>>

-----------------------------------------------------------------------------
(* The alias catalog excel_file_map: a dict, kept as the sequence of its    *)
(* <<key, value>> items in insertion order.                                 *)

\* d[k] = v
DictSet(d, k, v) ==
    IF \E i \in 1..Len(d) : d[i][1] = k
    THEN [i \in 1..Len(d) |-> IF d[i][1] = k THEN <<k, v>> ELSE d[i]]
    ELSE Append(d, <<k, v>>)

RECURSIVE BuildFileMap(_, _)
\* the four entries that one catalog file adds
AddNames(d, base_name, name_without_ext) ==
    DictSet(DictSet(DictSet(DictSet(d, base_name, base_name),
                            name_without_ext, base_name),
                    Remove(base_name, " "), base_name),
            Remove(name_without_ext, " "), base_name)

AddFile(d, base_name) == AddNames(d, base_name, splitext(base_name)[1])

BuildFileMap(files, d) ==
    IF files = <<>> THEN d
    ELSE BuildFileMap(Tail(files), AddFile(d, basename(Head(files))))

excel_file_map_of(files) == BuildFileMap(files, <<>>)

\* index_to_file of replace_indexed_match
index_to_file ==
    <<  <<"1", "Deposits Data Lite.xlsx">>,
        <<"2", "Loans Data Lite.xlsx">>,
        <<"3", "Form X Report  Main Lite.xlsx">> >>

\* d.get(k) as <<>> (no such key) or <<value>>
DictGet(d, k) ==
    LET c == {i \in 1..Len(d) : d[i][1] = k}
    IN  IF c = {} THEN <<>> ELSE <<d[Min(c)][2]>>

-----------------------------------------------------------------------------
(* fix_external_references *)

\* the cleaning both sides of the comparison go through
CleanName(s) == Remove(Remove(Remove(lower(s), " "), "("), ")")

\* clean_filename in clean_key or clean_key in clean_filename
EitherContains(clean_filename, clean_key) ==
    Contains(clean_filename, clean_key) \/ Contains(clean_key, clean_filename)

FuzzyEq(filename, file_key) == EitherContains(CleanName(filename), CleanName(file_key))

\* for file_key, file_value in excel_file_map.items(): ... break
\* <<>> stands for target_filename = None
\* the loop without its break: the last matching entry wins
RECURSIVE FindTargetNoBreak(_, _)
FindTargetNoBreak(filename, excel_file_map) ==
    IF excel_file_map = <<>> THEN <<>>
    ELSE IF FindTargetNoBreak(filename, Tail(excel_file_map)) # <<>>
         THEN FindTargetNoBreak(filename, Tail(excel_file_map))
         ELSE IF FuzzyEq(filename, Head(excel_file_map)[1])
              THEN <<Head(excel_file_map)[2]>>
              ELSE <<>>

RECURSIVE FindTarget(_, _)
FindTarget(filename, excel_file_map) ==
    IF excel_file_map = <<>> THEN <<>>
    ELSE IF FuzzyEq(filename, Head(excel_file_map)[1])
         THEN <<Head(excel_file_map)[2]>>
         ELSE FindTarget(filename, Tail(excel_file_map))

\* '?[^!']*'?!([A-Z0-9:$]+) tried right after the "]" at position p - 1, e
\* being the first "!" or quote from p on: the position of the "!" when it
\* matches, 0 when it does not
StdBangAt(s, e) ==
    IF Chr(s, e) = "'"
    THEN (IF Chr(s, e + 1) = "!" /\ Chr(s, e + 2) \in RangeChars THEN e + 1 ELSE 0)
    ELSE (IF Chr(s, e) = "!" /\ Chr(s, e + 1) \in RangeChars THEN e ELSE 0)

StdBang(s, p) == StdBangAt(s, FirstIn(s, p, {"!", "'"}))

\* [^]]+\] and the rest of standard_pattern tried right after a "[" at b, r
\* being the first "]" after b
StdCloses(s, b, r) == r <= Len(s) /\ r > b + 1 /\ StdBang(s, r + 1) # 0

\* the "[" that standard_pattern settles on for a match attempted at i, a being
\* the position after the optional opening quote: the last "[" of the run of
\* non-quote characters from a from which the rest of the pattern matches;
\* 0 when there is no match at i
StdBracketFrom(s, a) ==
    LET c == {b \in a..(FirstIn(s, a, {"'"}) - 1) :
                Chr(s, b) = "[" /\ StdCloses(s, b, FirstIn(s, b + 1, {"]"}))}
    IN  IF c = {} THEN 0 ELSE Max(c)

StdBracket(s, i) == StdBracketFrom(s, IF Chr(s, i) = "'" THEN i + 1 ELSE i)

\* the match object of standard_pattern: i start, a after the opening quote,
\* b the "[", r the "]", e the end of the sheet name, bang the "!", last the
\* last character of the range
StdGroups(s, i, a, b, r, e, bang, last) ==
    [start |-> i, end |-> last,
     group0 |-> SubSeq(s, i, last),
     group1 |-> SubSeq(s, a, e - 1),
     group2 |-> SubSeq(s, b + 1, r - 1),
     group3 |-> SubSeq(s, r + 1, e - 1),
     group4 |-> SubSeq(s, bang + 1, last)]

StdMatchTail(s, i, a, b, r, e, bang) ==
    StdGroups(s, i, a, b, r, e, bang, RunEnd(s, bang + 1, RangeChars) - 1)

StdMatchClose(s, i, a, b, r) ==
    StdMatchTail(s, i, a, b, r, FirstIn(s, r + 1, {"!", "'"}), StdBang(s, r + 1))

StdMatchOpen(s, i, a, b) == StdMatchClose(s, i, a, b, FirstIn(s, b + 1, {"]"}))

\* the match of standard_pattern at i (when StdBracket(s, i) # 0)
StdMatch(s, i) ==
    StdMatchOpen(s, i, IF Chr(s, i) = "'" THEN i + 1 ELSE i, StdBracket(s, i))

\* "if target_filename:" with target_filename from the loop over the catalog
StdReplacement(match, target_filename, nbp) ==
    IF target_filename # <<>> /\ target_filename # <<"">>
    THEN "'" \o nbp \o "[" \o target_filename[1] \o "]" \o match.group3
             \o "'!" \o match.group4
    ELSE match.group0

replace_standard_match(match, excel_file_map, nbp) ==
    StdReplacement(match, FindTarget(match.group2, excel_file_map), nbp)

\* re.sub(standard_pattern, replace_standard_match, s) from position pos on
RECURSIVE StandardSub(_, _, _, _)
StdSubAt(s, pos, m, excel_file_map, nbp) ==
    SubSeq(s, pos, m.start - 1)
        \o replace_standard_match(m, excel_file_map, nbp)
        \o StandardSub(s, m.end + 1, excel_file_map, nbp)

StdSubFrom(s, pos, starts, excel_file_map, nbp) ==
    IF starts = {} THEN From(s, pos)
    ELSE StdSubAt(s, pos, StdMatch(s, Min(starts)), excel_file_map, nbp)

StandardSub(s, pos, excel_file_map, nbp) ==
    StdSubFrom(s, pos, {i \in pos..Len(s) : StdBracket(s, i) # 0}, excel_file_map, nbp)

\* indexed_pattern \[(\d+)\]([^!]+)!([A-Z0-9:$]+) attempted at i: d the end of
\* the digits, bang the first "!" after it
IdxMatchesAt(s, i, d, bang) ==
    /\ Chr(s, i) = "["
    /\ d > i + 1
    /\ Chr(s, d) = "]"
    /\ bang > d + 1
    /\ Chr(s, bang + 1) \in RangeChars

IdxMatchesDigits(s, i, d) == IdxMatchesAt(s, i, d, FirstIn(s, d + 1, {"!"}))

IdxMatches(s, i) == IdxMatchesDigits(s, i, RunEnd(s, i + 1, DigitChars))

IdxGroups(s, i, d, bang, last) ==
    [start |-> i, end |-> last,
     group0 |-> SubSeq(s, i, last),
     group1 |-> SubSeq(s, i + 1, d - 1),
     group2 |-> SubSeq(s, d + 1, bang - 1),
     group3 |-> SubSeq(s, bang + 1, last)]

IdxMatchBang(s, i, d, bang) ==
    IdxGroups(s, i, d, bang, RunEnd(s, bang + 1, RangeChars) - 1)

IdxMatchDigits(s, i, d) == IdxMatchBang(s, i, d, FirstIn(s, d + 1, {"!"}))

IdxMatch(s, i) == IdxMatchDigits(s, i, RunEnd(s, i + 1, DigitChars))

\* the test without "and new_base_path"
IdxReplacementAnyBase(match, filename, nbp) ==
    IF filename # <<>>
    THEN "'" \o nbp \o "[" \o filename[1] \o "]" \o match.group2 \o "'!" \o match.group3
    ELSE match.group0

\* "if workbook_index in index_to_file and new_base_path:"
IdxReplacement(match, filename, nbp) ==
    IF filename # <<>> /\ nbp # ""
    THEN "'" \o nbp \o "[" \o filename[1] \o "]" \o match.group2 \o "'!" \o match.group3
    ELSE match.group0

replace_indexed_match(match, nbp) ==
    IdxReplacement(match, DictGet(index_to_file, match.group1), nbp)

RECURSIVE IndexedSub(_, _, _)
IdxSubAt(s, pos, m, nbp) ==
    SubSeq(s, pos, m.start - 1) \o replace_indexed_match(m, nbp)
        \o IndexedSub(s, m.end + 1, nbp)

IdxSubFrom(s, pos, starts, nbp) ==
    IF starts = {} THEN From(s, pos)
    ELSE IdxSubAt(s, pos, IdxMatch(s, Min(starts)), nbp)

IndexedSub(s, pos, nbp) ==
    IdxSubFrom(s, pos, {i \in pos..Len(s) : IdxMatches(s, i)}, nbp)

\* sheet_reference_pattern ([\w\s-]+\.xlsx)([\w\s-]+) attempted at i, w being
\* the end of the run of [\w\s-] that starts at i
LooseMatchesAt(s, i, w) ==
    /\ w > i
    /\ w + 4 <= Len(s) /\ SubSeq(s, w, w + 4) = ".xlsx"
    /\ Chr(s, w + 5) \in LooseChars

LooseMatches(s, i) == LooseMatchesAt(s, i, RunEnd(s, i, LooseChars))

\* the groups of the match, as the sequence <<group(0), group(1), group(2)>>
LooseGroups(s, i, w, last) ==
    [start |-> i, end |-> last,
     groups |-> <<SubSeq(s, i, last), SubSeq(s, i, w + 4), SubSeq(s, w + 5, last)>>]

LooseMatchAt(s, i, w) == LooseGroups(s, i, w, RunEnd(s, w + 5, LooseChars) - 1)

LooseMatch(s, i) == LooseMatchAt(s, i, RunEnd(s, i, LooseChars))

\* match.group(n): IndexError ("no such group") when the pattern has no group n
Group(match, n) ==
    IF n + 1 \in DOMAIN match.groups
    THEN [raised |-> FALSE, value |-> match.groups[n + 1]]
    ELSE [raised |-> TRUE, value |-> "IndexError"]

\* "if target_filename and new_base_path:"
LooseReplacement(match, sheet, target_filename, nbp) ==
    IF target_filename # <<>> /\ target_filename # <<"">> /\ nbp # ""
    THEN [raised |-> FALSE, value |-> nbp \o target_filename[1] \o sheet]
    ELSE [raised |-> FALSE, value |-> match.groups[1]]

\* file = match.group(1); sheet = match.group(3); ...
LooseWithGroups(match, file, sheet, excel_file_map, nbp) ==
    IF file.raised THEN file
    ELSE IF sheet.raised THEN sheet
    ELSE LooseReplacement(match, sheet.value, FindTarget(file.value, excel_file_map), nbp)

replace_sheet_reference(match, excel_file_map, nbp) ==
    LooseWithGroups(match, Group(match, 1), Group(match, 3), excel_file_map, nbp)

\* re.sub(sheet_reference_pattern, replace_sheet_reference, s): an exception of
\* the callback leaves re.sub
RECURSIVE LooseSub(_, _, _, _)
LooseJoin(head, r, rest) ==
    IF rest.raised THEN rest
    ELSE [raised |-> FALSE, value |-> head \o r.value \o rest.value]

LooseSubWith(s, pos, m, r, excel_file_map, nbp) ==
    IF r.raised THEN r
    ELSE LooseJoin(SubSeq(s, pos, m.start - 1), r,
                   LooseSub(s, m.end + 1, excel_file_map, nbp))

LooseSubAt(s, pos, m, excel_file_map, nbp) ==
    LooseSubWith(s, pos, m, replace_sheet_reference(m, excel_file_map, nbp),
                 excel_file_map, nbp)

LooseSubFrom(s, pos, starts, excel_file_map, nbp) ==
    IF starts = {} THEN [raised |-> FALSE, value |-> From(s, pos)]
    ELSE LooseSubAt(s, pos, LooseMatch(s, Min(starts)), excel_file_map, nbp)

LooseSub(s, pos, excel_file_map, nbp) ==
    LooseSubFrom(s, pos, {i \in pos..Len(s) : LooseMatches(s, i)}, excel_file_map, nbp)

\* line 129
StandardPass(s, excel_file_map, nbp) == StandardSub(s, 1, excel_file_map, nbp)

\* line 130
IndexedPass(s, nbp) == IndexedSub(s, 1, nbp)

\* line 131
LoosePass(s, excel_file_map, nbp) == LooseSub(s, 1, excel_file_map, nbp)

\* a rewriter whose indexed and loose passes read the formula it was given,
\* not the text the standard pass made
fix_external_references_on_original(f, excel_file_map, nbp) ==
    IF f = "" THEN [raised |-> FALSE, value |-> f]
    ELSE LoosePass(IndexedPass(f, nbp), excel_file_map, nbp)

\* the result is [raised |-> FALSE, value |-> the string returned] or
\* [raised |-> TRUE, value |-> the exception]
fix_external_references(f, excel_file_map, nbp) ==
    IF f = "" THEN [raised |-> FALSE, value |-> f]
    ELSE LoosePass(IndexedPass(StandardPass(f, excel_file_map, nbp), nbp),
                   excel_file_map, nbp)

-----------------------------------------------------------------------------
(* Cell values.  A Python value is a record tagged with its type:           *)
(*   None  [t |-> "none"]          str    [t |-> "str", s |-> text]         *)
(*   bool  [t |-> "bool", b |-> _]  int    [t |-> "int", n |-> integer]     *)
(*   float [t |-> "float", m |-> mantissa, e |-> exponent]: m * 10^e with   *)
(*         m not a multiple of 10 (0.0 is m = 0, e = 0), or                 *)
(*         [t |-> "float", special |-> "nan" | "inf" | "-inf"]              *)

NoneValue == [t |-> "none"]

\* a set of strings
SetValue(S) == [t |-> "set", s |-> S]

StrValue(s) == [t |-> "str", s |-> s]

BoolValue(b) == [t |-> "bool", b |-> b]

IntValue(n) == [t |-> "int", n |-> n]

\* the float m * 10^e, in its normal form
RECURSIVE FloatValue(_, _)
FloatValue(m, e) ==
    IF m = 0 THEN [t |-> "float", m |-> 0, e |-> 0]
    ELSE IF m % 10 = 0 THEN FloatValue(m \div 10, e + 1)
    ELSE [t |-> "float", m |-> m, e |-> e]

FloatSpecial(k) == [t |-> "float", special |-> k]

RECURSIVE Zeros(_)
Zeros(k) == IF k <= 0 THEN "" ELSE "0" \o Zeros(k - 1)

\* repr of a finite float whose repr is positional: digits is str(abs(m))
FloatDigits(neg, digits, e) ==
    (IF neg THEN "-" ELSE "")
      \o (IF e >= 0 THEN digits \o Zeros(e) \o ".0"
          ELSE IF Len(digits) > -e
               THEN SubSeq(digits, 1, Len(digits) + e) \o "." \o From(digits, Len(digits) + e + 1)
               ELSE "0." \o Zeros(-e - Len(digits)) \o digits)

\* str(x) for a float x
FloatStr(x) ==
    IF "special" \in DOMAIN x THEN x.special
    ELSE FloatDigits(x.m < 0, ToString(IF x.m < 0 THEN -x.m ELSE x.m), x.e)

\* str(cell.value), lines 777-782
PyStr(val) ==
    CASE val.t = "str" -> val.s
      [] val.t = "int" -> ToString(val.n)
      [] val.t = "bool" -> (IF val.b THEN "True" ELSE "False")
      [] val.t = "float" -> FloatStr(val)
      [] OTHER -> ""

\* str.isdigit(), for the ASCII texts of the model
isdigit(s) == s # "" /\ \A i \in 1..Len(s) : Chr(s, i) \in DigitChars

\* int(s) for a string of digits
RECURSIVE DigitsValue(_, _)
DigitsValue(s, acc) ==
    IF s = "" THEN acc
    ELSE DigitsValue(From(s, 2),
                     10 * acc + (CHOOSE d \in 0..9 : Chr("0123456789", d + 1) = Chr(s, 1)))

int(s) == DigitsValue(s, 0)

\* str.strip(): b and e are the first and the last character that is no space
StripTo(s, b) ==
    IF b > Len(s) THEN ""
    ELSE SubSeq(s, b, Max({j \in 1..Len(s) : Chr(s, j) \notin SpaceChars}))

strip(s) == StripTo(s, RunEnd(s, 1, SpaceChars))

\* The text that float() reads, cut in its parts: b is the text without
\* spaces and sign, i the end of the integer digits, j the end of the
\* fraction digits (j = i without a "."), x the first exponent digit (0
\* without an exponent)
NumberOk(b, i, j, x) ==
    /\ (i > 1 \/ j > i + 1)
    /\ IF x = 0 THEN j = Len(b) + 1
       ELSE x <= Len(b) /\ RunEnd(b, x, DigitChars) = Len(b) + 1

ExpStart(b, j) ==
    IF Chr(b, j) = "e"
    THEN (IF Chr(b, j + 1) \in {"+", "-"} THEN j + 2 ELSE j + 1)
    ELSE 0

FracEnd(b, i) == IF Chr(b, i) = "." THEN RunEnd(b, i + 1, DigitChars) ELSE i

NumberOkFrac(b, i, j) == NumberOk(b, i, j, ExpStart(b, j))

NumberOkInt(b, i) == NumberOkFrac(b, i, FracEnd(b, i))

\* b is a decimal numeral: digits with an optional point and exponent
IsNumber(b) == NumberOkInt(b, RunEnd(b, 1, DigitChars))

Unsigned(t) == IF Chr(t, 1) \in {"+", "-"} THEN From(t, 2) ELSE t

\* float(s) does not raise ValueError (s without the digit separator "_")
FloatParses(s) ==
    \/ Unsigned(lower(strip(s))) \in {"inf", "infinity", "nan"}
    \/ IsNumber(Unsigned(lower(strip(s))))

\* the exponent written in b from x on (0 when x = 0)
ExpValue(b, x) ==
    IF x = 0 THEN 0
    ELSE IF Chr(b, x - 1) = "-" THEN -int(From(b, x)) ELSE int(From(b, x))

NumberValue(neg, b, i, j, x) ==
    FloatValue((IF neg THEN -1 ELSE 1)
                 * int(SubSeq(b, 1, i - 1) \o (IF j > i THEN SubSeq(b, i + 1, j - 1) ELSE "")),
               ExpValue(b, x) - (IF j > i THEN j - i - 1 ELSE 0))

NumberValueFrac(neg, b, i, j) == NumberValue(neg, b, i, j, ExpStart(b, j))

NumberValueInt(neg, b, i) == NumberValueFrac(neg, b, i, FracEnd(b, i))

FloatOf(neg, b) ==
    IF b \in {"inf", "infinity"} THEN FloatSpecial(IF neg THEN "-inf" ELSE "inf")
    ELSE IF b = "nan" THEN FloatSpecial("nan")
    ELSE NumberValueInt(neg, b, RunEnd(b, 1, DigitChars))

FloatOfText(t) == FloatOf(Chr(t, 1) = "-", Unsigned(t))

\* float(s), for s with FloatParses(s)
float(s) == FloatOfText(lower(strip(s)))

\* lines 994-1007: the value that recreate_workbooks assigns to the cell of a
\* stored value that is not a formula
CoerceLowered(value, lowered) ==
    IF lowered = "true" THEN BoolValue(TRUE)
    ELSE IF lowered = "false" THEN BoolValue(FALSE)
    ELSE IF isdigit(value) THEN IntValue(int(value))
    ELSE IF FloatParses(value) THEN float(value)
    ELSE StrValue(value)

CoerceStored(value) == CoerceLowered(value, lower(value))

-----------------------------------------------------------------------------
(* The configuration of script.py:15-17 *)

ConfiguredFiles ==
    <<"Deposits Data Lite.xlsx", "Form X Report  Main Lite.xlsx", "Loans Data Lite.xlsx">>

\* the same catalog with one workbook listed twice
RepeatedFiles ==
    <<"Deposits Data Lite.xlsx", "Loans Data Lite.xlsx", "Deposits Data Lite.xlsx">>

Catalogs == {ConfiguredFiles, RepeatedFiles}

ConfiguredReportSheets == {"Part I", "Part II", "Part III", "MIS-Report"}

ConfiguredExcludeSheets == {"Pivot-Borrowings"}

-----------------------------------------------------------------------------
(* Cell formatting.  The style of a cell is what openpyxl keeps for it: the *)
(* number format, the font, the fill, the alignment and the border.  None   *)
(* of Python is the string None below; a Color object is a record with its  *)
(* kind, and no Color object is NoColor.                                    *)

None == "None"

NoColor == [kind |-> "none"]

Rgb(s) == [kind |-> "rgb", rgb |-> s]

Theme(n) == [kind |-> "theme", theme |-> n]

Indexed(n) == [kind |-> "indexed", indexed |-> n]

HexChars == DigitChars \cup {"A", "B", "C", "D", "E", "F", "a", "b", "c", "d", "e", "f"}

\* all(c in '0123456789ABCDEFabcdef' for c in s)
IsHex(s) == \A i \in 1..Len(s) : Chr(s, i) \in HexChars

\* ''.join(c for c in s if c in '0123456789ABCDEFabcdef')
RECURSIVE HexOnly(_)
HexOnly(s) ==
    IF s = "" THEN ""
    ELSE (IF Chr(s, 1) \in HexChars THEN Chr(s, 1) ELSE "") \o HexOnly(From(s, 2))

\* s.replace(sub, '', 1)
RemoveFirst(s, sub) ==
    IF Contains(sub, s)
    THEN SubSeq(s, 1, Min({i \in 0..(Len(s) - Len(sub)) : SubSeq(s, i + 1, i + Len(sub)) = sub}))
         \o From(s, Min({i \in 0..(Len(s) - Len(sub)) : SubSeq(s, i + 1, i + Len(sub)) = sub})
                       + Len(sub) + 1)
    ELSE s

\* not x, for x a string or None
Falsy(x) == x \in {None, ""}

\* the color keyword of Font, PatternFill and Side: None stays None, a
\* string of 6 or 8 hexadecimal digits becomes an RGB Color (6 digits get
\* the prefix 00), any other string raises ValueError
ColorArg(x) ==
    IF x = None THEN [raised |-> FALSE, value |-> NoColor]
    ELSE IF IsHex(x) /\ Len(x) = 8 THEN [raised |-> FALSE, value |-> Rgb(x)]
    ELSE IF IsHex(x) /\ Len(x) = 6 THEN [raised |-> FALSE, value |-> Rgb("00" \o x)]
    ELSE [raised |-> TRUE, value |-> NoColor]

\* color.rgb: the string of an RGB Color; for a theme or indexed Color the
\* attribute is not set and the read gives the descriptor of the class, an
\* object that is true, is not a str, and whose str() is the text below
rgb_attr(color) ==
    IF color.kind = "rgb" THEN [is_str |-> TRUE, text |-> color.rgb]
    ELSE [is_str |-> FALSE, text |-> "Values must be of type <class 'str'>"]

Font(name, size, bold, italic, underline, color) ==
    [name |-> name, size |-> size, bold |-> bold, italic |-> italic,
     underline |-> underline, color |-> color]

PatternFill(fill_type, start_color, end_color) ==
    [fill_type |-> fill_type, start_color |-> start_color, end_color |-> end_color]

Alignment(horizontal, vertical, wrap_text) ==
    [horizontal |-> horizontal, vertical |-> vertical, wrap_text |-> wrap_text]

Side(style, color) == [style |-> style, color |-> color]

Border(top, bottom, left, right) ==
    [top |-> top, bottom |-> bottom, left |-> left, right |-> right]

\* the values openpyxl accepts for Side.style, PatternFill.fill_type and
\* Alignment.horizontal / vertical (those the inputs use); another value
\* raises ValueError
SideStyles == {None, "thin", "medium", "dashed"}

FillTypes == {None, "solid", "none", "gray125"}

HorizontalValues == {None, "center", "left", "right"}

VerticalValues == {None, "center", "top", "bottom"}

CellStyle(number_format, font, fill, alignment, border) ==
    [number_format |-> number_format, font |-> font, fill |-> fill,
     alignment |-> alignment, border |-> border]

\* the style of a cell of a new Workbook()
DefaultStyle ==
    CellStyle("General",
              Font("Calibri", "11", "False", "False", None, Theme("1")),
              PatternFill(None, Rgb("00000000"), Rgb("00000000")),
              Alignment(None, None, None),
              Border(Side(None, NoColor), Side(None, NoColor),
                     Side(None, NoColor), Side(None, NoColor)))

\* a colour of a formatting record of script.py: None, or the dict
\* {'type': ..., 'value': ...}
NoneInfo == [type |-> None]

ColorInfo(type, value) == [type |-> type, value |-> value]

\* lines 259-276 and 279-293: the dict of a Color.  The rgb attribute of a
\* theme or indexed Color is true and not a str, so that the branches of
\* lines 268-273 and 287-290 are never taken
ColorInfoOf(color, default) ==
    IF color.kind = "none" THEN NoneInfo
    ELSE IF rgb_attr(color).is_str
    THEN (IF rgb_attr(color).text = "" THEN NoneInfo
          ELSE ColorInfo("rgb", rgb_attr(color).text))
    ELSE ColorInfo("rgb", default)

\* lines 316-333
SideInfo(side) == [style |-> side.style, color |-> NoneInfo]

\* extract_cell_formatting_phase2, lines 256-335
extract_cell_formatting_phase2(cell) ==
    [number_format |-> cell.number_format,
     font |-> [name |-> cell.font.name, size |-> cell.font.size, bold |-> cell.font.bold,
               italic |-> cell.font.italic, underline |-> cell.font.underline,
               color |-> ColorInfoOf(cell.font.color, "FF000000")],
     fill |-> [fill_type |-> cell.fill.fill_type,
               start_color |-> ColorInfoOf(cell.fill.start_color, "FFFFFFFF"),
               end_color |-> NoneInfo],
     alignment |-> [horizontal |-> cell.alignment.horizontal,
                    vertical |-> cell.alignment.vertical,
                    wrap_text |-> cell.alignment.wrap_text],
     border |-> [top |-> SideInfo(cell.border.top), bottom |-> SideInfo(cell.border.bottom),
                 left |-> SideInfo(cell.border.left), right |-> SideInfo(cell.border.right)]]

\* lines 355-375: the color keyword given to Font
FontColorArg(info) ==
    IF info = NoneInfo THEN None
    ELSE IF info.type = "rgb"
    THEN (IF Falsy(info.value) THEN "000000"
          ELSE IF strip(info.value) = "" \/ ~IsHex(RemoveFirst(strip(info.value), "FF"))
          THEN "000000"
          ELSE strip(info.value))
    ELSE IF info.type \in {"theme", "indexed"} THEN "000000"
    ELSE None

\* lines 378-396: Font with the color, or without it when Font raised
FontOf(font_data, color) ==
    Font(font_data.name, font_data.size, font_data.bold, font_data.italic, font_data.underline,
         IF color.raised THEN NoColor ELSE color.value)

\* lines 405-410: fill_color, None when there is none
FillColorArg(fill_data) ==
    IF fill_data.start_color = NoneInfo THEN None
    ELSE IF fill_data.start_color.type = "rgb" /\ ~Falsy(fill_data.start_color.value)
    THEN fill_data.start_color.value
    ELSE None

\* lines 436-440 and 450-451: a side of the new border
SideOf(side_data) ==
    IF Falsy(side_data.style) THEN Side(None, NoColor) ELSE Side(side_data.style, NoColor)

\* lines 433-451; Side raises on a style it does not know and line 453
\* catches it
ApplyBorder(cell, border_data) ==
    IF \E s \in {"top", "bottom", "left", "right"} : border_data[s].style \notin SideStyles \cup {""}
    THEN cell
    ELSE IF \A s \in {"top", "bottom", "left", "right"} : Falsy(border_data[s].style)
    THEN cell
    ELSE [cell EXCEPT !.border = Border(SideOf(border_data.top), SideOf(border_data.bottom),
                                        SideOf(border_data.left), SideOf(border_data.right))]

\* lines 424-451; Alignment raises on a value it does not know and the
\* border is not reached
ApplyAlignment(cell, fmt) ==
    IF fmt.alignment.horizontal \notin HorizontalValues
       \/ fmt.alignment.vertical \notin VerticalValues
    THEN cell
    ELSE ApplyBorder([cell EXCEPT !.alignment = Alignment(fmt.alignment.horizontal,
                                                          fmt.alignment.vertical,
                                                          fmt.alignment.wrap_text)],
                     fmt.border)

\* lines 399-421 for the color fill_color, then the lines that follow
ApplyFillColor(cell, fmt, fill_color) ==
    IF fill_color = None \/ fill_color = ""
       \/ fmt.fill.fill_type \notin FillTypes \/ ColorArg(fill_color).raised
    THEN ApplyAlignment(cell, fmt)
    ELSE ApplyAlignment([cell EXCEPT !.fill = PatternFill(fmt.fill.fill_type,
                                                          ColorArg(fill_color).value,
                                                          ColorArg(fill_color).value)],
                        fmt)

\* lines 399-451
ApplyFill(cell, fmt) ==
    IF Falsy(fmt.fill.fill_type) \/ fmt.fill.fill_type = "none"
    THEN ApplyAlignment(cell, fmt)
    ELSE ApplyFillColor(cell, fmt, FillColorArg(fmt.fill))

\* an apply_formatting that appends the record's number format to the one
\* the cell has
apply_formatting_appending(cell, fmt) ==
    ApplyFill([cell EXCEPT !.number_format = cell.number_format \o ";" \o fmt.number_format,
                           !.font = FontOf(fmt.font, ColorArg(FontColorArg(fmt.font.color)))],
              fmt)

\* apply_formatting, lines 340-454, on the decoded record fmt: the style of
\* the cell when the function returns
apply_formatting(cell, fmt) ==
    ApplyFill([cell EXCEPT !.number_format = fmt.number_format,
                           !.font = FontOf(fmt.font, ColorArg(FontColorArg(fmt.font.color)))],
              fmt)

\* fix_font_colors, lines 515-529, for one cell with a value
FixedFont(cell) ==
    [cell EXCEPT !.font = Font(cell.font.name, cell.font.size, cell.font.bold, cell.font.italic,
                               cell.font.underline, ColorArg("000000").value)]

-----------------------------------------------------------------------------
(* The formatting functions of test_excel_formatting.py.  Their record      *)
(* holds a colour as a string or None.                                      *)

\* ensure_argb_format, lines 7-22
ensure_argb_format(color_str) ==
    IF Falsy(color_str) THEN None
    ELSE IF Len(HexOnly(color_str)) = 6 THEN "FF" \o HexOnly(color_str)
    ELSE IF Len(HexOnly(color_str)) = 8 THEN HexOnly(color_str)
    ELSE "FF000000"

\* lines 36-39, 47-50 and 61-64: the colour string of a Color
ColorString(color) ==
    IF color.kind = "none" THEN None
    ELSE ensure_argb_format(rgb_attr(color).text)

\* lines 54-69
SideProps(side) == [style |-> side.style, color |-> ColorString(side.color)]

\* extract_cell_formatting, lines 24-81
extract_cell_formatting(cell) ==
    [number_format |-> cell.number_format,
     font |-> [name |-> cell.font.name, size |-> cell.font.size, bold |-> cell.font.bold,
               italic |-> cell.font.italic, underline |-> cell.font.underline,
               color |-> ColorString(cell.font.color)],
     fill |-> [fill_type |-> cell.fill.fill_type,
               start_color |-> ColorString(cell.fill.start_color)],
     border |-> [top |-> SideProps(cell.border.top), bottom |-> SideProps(cell.border.bottom),
                 left |-> SideProps(cell.border.left), right |-> SideProps(cell.border.right)],
     alignment |-> [horizontal |-> cell.alignment.horizontal,
                    vertical |-> cell.alignment.vertical,
                    wrap_text |-> cell.alignment.wrap_text]]

\* lines 129-135
SideFrom(side_data) ==
    IF Falsy(side_data.style) THEN Side(None, NoColor)
    ELSE Side(side_data.style, ColorArg(side_data.color).value)

\* lines 123-137; Side raises on a style or a colour it does not accept and
\* line 139 catches it
DictBorder(cell, border_data) ==
    IF \E s \in {"top", "bottom", "left", "right"} :
           /\ ~Falsy(border_data[s].style)
           /\ (border_data[s].style \notin SideStyles \/ ColorArg(border_data[s].color).raised)
    THEN cell
    ELSE [cell EXCEPT !.border = Border(SideFrom(border_data.top), SideFrom(border_data.bottom),
                                        SideFrom(border_data.left), SideFrom(border_data.right))]

\* lines 115-137
DictAlignment(cell, fmt_dict) ==
    IF fmt_dict.alignment.horizontal \notin HorizontalValues
       \/ fmt_dict.alignment.vertical \notin VerticalValues
    THEN cell
    ELSE DictBorder([cell EXCEPT !.alignment = Alignment(fmt_dict.alignment.horizontal,
                                                         fmt_dict.alignment.vertical,
                                                         fmt_dict.alignment.wrap_text)],
                    fmt_dict.border)

\* lines 102-137
DictFill(cell, fmt_dict) ==
    IF Falsy(fmt_dict.fill.fill_type) \/ fmt_dict.fill.fill_type = "none"
       \/ Falsy(fmt_dict.fill.start_color)
    THEN DictAlignment(cell, fmt_dict)
    ELSE IF fmt_dict.fill.fill_type \notin FillTypes \/ ColorArg(fmt_dict.fill.start_color).raised
    THEN cell
    ELSE DictAlignment([cell EXCEPT !.fill = PatternFill(fmt_dict.fill.fill_type,
                                                         ColorArg(fmt_dict.fill.start_color).value,
                                                         ColorArg(fmt_dict.fill.start_color).value)],
                       fmt_dict)

\* lines 89-137 with the number format set
DictFont(cell, fmt_dict) ==
    IF ColorArg(fmt_dict.font.color).raised THEN cell
    ELSE DictFill([cell EXCEPT !.font = Font(fmt_dict.font.name, fmt_dict.font.size,
                                             fmt_dict.font.bold, fmt_dict.font.italic,
                                             fmt_dict.font.underline,
                                             ColorArg(fmt_dict.font.color).value)],
                  fmt_dict)

\* apply_formatting of test_excel_formatting.py, lines 83-140
apply_formatting_dict(cell, fmt_dict) ==
    DictFont([cell EXCEPT !.number_format = fmt_dict.number_format], fmt_dict)

\* lines 175-176
BlackFont(fmt) ==
    IF Falsy(fmt.font.color) THEN fmt ELSE [fmt EXCEPT !.font.color = "FF000000"]

\* fix_font_colors_only, lines 171-179, for one cell with a value
fix_font_colors_only(cell) ==
    apply_formatting_dict(cell, BlackFont(extract_cell_formatting(cell)))

-----------------------------------------------------------------------------
(* Workbooks.  A workbook is the sequence of its worksheets; a worksheet    *)
(* has a title, the dimensions max_row and max_column, and cells, which     *)
(* maps every <<row, column>> of the grid to the cell's value, and styles,  *)
(* which maps it to the cell's style.                                       *)

Worksheet(title, max_row, max_column, cells) ==
    [title |-> title, max_row |-> max_row, max_column |-> max_column, cells |-> cells,
     styles |-> [rc \in DOMAIN cells |-> DefaultStyle]]

\* the worksheet with the style given to the cell rc
Styled(ws, rc, style) == [ws EXCEPT !.styles[rc] = style]

\* cell.coordinate
coordinate(row, col) == Chr("ABCDEFGHIJKLMNOPQRSTUVWXYZ", col) \o ToString(row)

\* the k-th <<row, col>> of the loops "for row in range(1, ws.max_row + 1):
\* for col in range(1, ws.max_column + 1)"
GridCell(ws, k) == <<((k - 1) \div ws.max_column) + 1, ((k - 1) % ws.max_column) + 1>>

GridSize(ws) == ws.max_row * ws.max_column

\* isinstance(cell.value, str) and cell.value.startswith('=')
IsFormula(val) == val.t = "str" /\ startswith(val.s, "=")

\* "report" if sheet_name in report_sheets else "non_report"
SheetType(sheet_name, reports) == IF sheet_name \in reports THEN "report" ELSE "non_report"

\* the set of the elements of a sequence
Range(seq) == {seq[i] : i \in 1..Len(seq)}

-----------------------------------------------------------------------------
(* identify_data: the snapshot workbook_data *)

\* sheet_data["cells"], lines 602-638: an entry for every cell with a value
SnapshotCells(ws) ==
    LET filled == {k \in 1..GridSize(ws) : ws.cells[GridCell(ws, k)] # NoneValue}
        at(c) == CHOOSE k \in filled : coordinate(GridCell(ws, k)[1], GridCell(ws, k)[2]) = c
    IN  [c \in {coordinate(GridCell(ws, k)[1], GridCell(ws, k)[2]) : k \in filled} |->
            [value |-> ws.cells[GridCell(ws, at(c))],
             is_formula |-> IsFormula(ws.cells[GridCell(ws, at(c))])]]

\* sheet_data, lines 588-598
SnapshotSheet(ws, reports) ==
    [type |-> SheetType(ws.title, reports),
     max_row |-> ws.max_row,
     max_column |-> ws.max_column,
     cells |-> SnapshotCells(ws)]

\* a snapshot that has an entry for every sheet of the workbook
SnapshotSheetsKeepingAll(wb, reports, excluded) ==
    [n \in {wb[i].title : i \in 1..Len(wb)} |->
        SnapshotSheet(wb[CHOOSE i \in 1..Len(wb) : wb[i].title = n], reports)]

\* workbook_data[file]["sheets"], lines 578-641
SnapshotSheets(wb, reports, excluded) ==
    LET kept == {i \in 1..Len(wb) : wb[i].title \notin excluded}
    IN  [n \in {wb[i].title : i \in kept} |->
            SnapshotSheet(wb[CHOOSE i \in kept : wb[i].title = n], reports)]

\* what identify_data returns, lines 562-666
identify_data(files, disk, reports, excluded) ==
    [f \in Range(files) |-> [sheets |-> SnapshotSheets(disk[f], reports, excluded)]]

-----------------------------------------------------------------------------
(* The store: the file excel_data.db.  Its tables are sets of rows; seq is  *)
(* sqlite_sequence, the last id that AUTOINCREMENT gave in each table;      *)
(* exports holds the tables that df.to_sql made: table name -> the sheet    *)
(* whose rows the table holds.                                              *)

NoStore == [exists |-> FALSE]

\* a file that does not exist
NoFile == [exists |-> FALSE]

\* setup_database on a file that does not exist, lines 194-254
EmptyTables ==
    [workbooks |-> {}, sheets |-> {}, cells |-> {}, tabular_data |-> {}, exports |-> <<>>,
     seq |-> [workbooks |-> 0, sheets |-> 0, cells |-> 0, tabular_data |-> 0]]

StoreFile(tables) == [exists |-> TRUE, tables |-> tables]

\* the rows that have the values of new in the columns of a UNIQUE constraint
Conflicts(rows, new, unique) == {r \in rows : \A k \in unique : r[k] = new[k]}

\* INSERT without a conflict clause and without the UNIQUE constraint
InsertRow(rows, id, new, unique) == rows \cup {[id |-> id] @@ new}

\* INSERT OR REPLACE: the rows in conflict are deleted, the new row gets the
\* next id
InsertOrReplace(rows, id, new, unique) ==
    (rows \ Conflicts(rows, new, unique)) \cup {[id |-> id] @@ new}

\* cursor.execute("INSERT OR REPLACE INTO <table> ...")
Execute(t, table, new, unique) ==
    [t EXCEPT ![table] = InsertOrReplace(@, t.seq[table] + 1, new, unique),
              !.seq[table] = @ + 1]

\* SELECT id FROM workbooks WHERE filename = ?, fetchone()[0]
WorkbookId(t, file) == Min({r.id : r \in {w \in t.workbooks : w.filename = file}})

\* SELECT id FROM sheets WHERE workbook_id = ? AND sheet_name = ?, fetchone()[0]
SheetId(t, workbook_id, sheet_name) ==
    Min({r.id : r \in {x \in t.sheets : x.workbook_id = workbook_id /\ x.sheet_name = sheet_name}})

\* the characters of the filenames, in the order of their codes
Ascii == " ()-.0123456789ABCDEFGHIJKLMNOPQRSTUVWXYZ_abcdefghijklmnopqrstuvwxyz"

Ord(c) == CHOOSE i \in 1..Len(Ascii) : Chr(Ascii, i) = c

RECURSIVE StrLess(_, _)
\* a < b in the BINARY collation of SQLite
StrLess(a, b) ==
    IF b = "" THEN FALSE
    ELSE IF a = "" THEN TRUE
    ELSE IF Chr(a, 1) # Chr(b, 1) THEN Ord(Chr(a, 1)) < Ord(Chr(b, 1))
    ELSE StrLess(From(a, 2), From(b, 2))

\* lines 824-834: the workbooks rows that the JOIN with sheets keeps, one
\* group each
SummaryGroups(t) == {w \in t.workbooks : \E x \in t.sheets : x.workbook_id = w.id}

\* the column report_sheets of the group of w: the SUM counts the rows of the
\* join, one for each cell of a report sheet and one for a report sheet
\* without cells
SummaryReportSheets(t, w) ==
    Cardinality({c \in t.cells :
                    \E x \in t.sheets : /\ x.id = c.sheet_id /\ x.workbook_id = w.id
                                        /\ x.sheet_type = "report"})
    + Cardinality({x \in t.sheets :
                    /\ x.workbook_id = w.id /\ x.sheet_type = "report"
                    /\ \A c \in t.cells : c.sheet_id # x.id})

\* lines 837-842: the global report_sheets after the loop over the summary,
\* whose rows come in the order of the index on filename; line 839 assigns
\* the third column of each row to it
ReportSheetsAfterSummary(t, before) ==
    IF SummaryGroups(t) = {} THEN before
    ELSE IntValue(SummaryReportSheets(t,
            CHOOSE w \in SummaryGroups(t) :
                \A v \in SummaryGroups(t) : v = w \/ StrLess(v.filename, w.filename)))

-----------------------------------------------------------------------------
(* store_data, lines 707-822: the body of "for file in excel_files".  The   *)
(* operators return [raised, value, tables]: whether an exception left the  *)
(* loop, the exception, and the tables as of the last conn.commit().        *)

RECURSIVE Replace(_, _, _)
\* s.replace(c, d) for a one-character c
Replace(s, c, d) ==
    IF s = "" THEN ""
    ELSE (IF Chr(s, 1) = c THEN d ELSE Chr(s, 1)) \o Replace(From(s, 2), c, d)

\* lines 801-802
TableName(file, sheet_name) ==
    Replace(Replace(splitext(basename(file))[1] \o "_" \o sheet_name, " ", "_"), "-", "_")

\* lines 777-786: cell_value, or the exception of fix_external_references
StoredText(val, excel_file_map, nbp) ==
    IF IsFormula(val) /\ nbp # ""
    THEN fix_external_references(PyStr(val), excel_file_map, nbp)
    ELSE [raised |-> FALSE, value |-> PyStr(val)]

\* lines 789-795: the row of the cell; the column formatting holds the
\* record itself, json.dumps and json.loads being inverse on a dict of
\* strings, numbers, booleans and None
CellRow(sheet_id, rc, val, text, style) ==
    [sheet_id |-> sheet_id, coordinate |-> coordinate(rc[1], rc[2]),
     value |-> text, is_formula |-> IsFormula(val),
     formatting |-> extract_cell_formatting_phase2(style)]

RECURSIVE StoreCells(_, _, _, _, _, _)
\* lines 784-795 for the cell val, then the cells that follow it
StoreCell(t, sheet_id, ws, k, excel_file_map, nbp, val, text) ==
    IF text.raised THEN [raised |-> TRUE, value |-> text.value, tables |-> t]
    ELSE StoreCells(Execute(t, "cells", CellRow(sheet_id, GridCell(ws, k), val, text.value,
                                                 ws.styles[GridCell(ws, k)]),
                            {"sheet_id", "coordinate"}),
                    sheet_id, ws, k + 1, excel_file_map, nbp)

\* lines 765-795, from the k-th cell of the grid on
StoreCells(t, sheet_id, ws, k, excel_file_map, nbp) ==
    IF k > GridSize(ws) THEN [raised |-> FALSE, value |-> "", tables |-> t]
    ELSE IF ws.cells[GridCell(ws, k)] = NoneValue
    THEN StoreCells(t, sheet_id, ws, k + 1, excel_file_map, nbp)
    ELSE StoreCell(t, sheet_id, ws, k, excel_file_map, nbp, ws.cells[GridCell(ws, k)],
                   StoredText(ws.cells[GridCell(ws, k)], excel_file_map, nbp))

\* lines 805-808: df.to_sql(table_name, conn, if_exists='replace'), the table
\* of that name is dropped and made again from the rows of the sheet
to_sql(t, table_name, file, sheet_name) ==
    [t EXCEPT !.exports = table_name :> [workbook |-> file, sheet |-> sheet_name] @@ @]

\* lines 797-818
StoreTabular(t, file, ws, reports) ==
    IF SheetType(ws.title, reports) = "non_report"
    THEN Execute(to_sql(t, TableName(file, ws.title), file, ws.title), "tabular_data",
                 [workbook |-> file, sheet |-> ws.title, table_name |-> TableName(file, ws.title)],
                 {"table_name"})
    ELSE t

SheetRow(workbook_id, ws, reports) ==
    [workbook_id |-> workbook_id, sheet_name |-> ws.title,
     sheet_type |-> SheetType(ws.title, reports),
     max_row |-> ws.max_row, max_column |-> ws.max_column]

RECURSIVE StoreSheets(_, _, _, _, _, _, _, _, _)
\* line 820 after the cells r of sheet i: the commit, then the next sheets; an
\* exception among the cells loses what was not committed
StoreSheetEnd(t, r, file, workbook_id, wb, i, reports, excluded, excel_file_map, nbp) ==
    IF r.raised THEN [raised |-> TRUE, value |-> r.value, tables |-> t]
    ELSE StoreSheets(StoreTabular(r.tables, file, wb[i], reports),
                     file, workbook_id, wb, i + 1, reports, excluded, excel_file_map, nbp)

\* lines 758-795 for sheet i, whose row is committed in t
StoreSheetCells(t, file, workbook_id, wb, i, reports, excluded, excel_file_map, nbp) ==
    StoreSheetEnd(t,
                  StoreCells(t, SheetId(t, workbook_id, wb[i].title), wb[i], 1,
                             excel_file_map, nbp),
                  file, workbook_id, wb, i, reports, excluded, excel_file_map, nbp)

\* lines 730-820, from the i-th sheet of the workbook on
StoreSheets(t, file, workbook_id, wb, i, reports, excluded, excel_file_map, nbp) ==
    IF i > Len(wb) THEN [raised |-> FALSE, value |-> "", tables |-> t]
    ELSE IF wb[i].title \in excluded
    THEN StoreSheets(t, file, workbook_id, wb, i + 1, reports, excluded, excel_file_map, nbp)
    ELSE StoreSheetCells(Execute(t, "sheets", SheetRow(workbook_id, wb[i], reports),
                                 {"workbook_id", "sheet_name"}),
                         file, workbook_id, wb, i, reports, excluded, excel_file_map, nbp)

\* lines 725-820 with the workbook's row committed in t
StoreWorkbookSheets(t, file, wb, reports, excluded, excel_file_map, nbp) ==
    StoreSheets(t, file, WorkbookId(t, file), wb, 1, reports, excluded, excel_file_map, nbp)

\* lines 711-822 for one file
StoreWorkbook(t, file, wb, reports, excluded, excel_file_map, nbp) ==
    StoreWorkbookSheets(Execute(t, "workbooks", [filename |-> file], {"filename"}),
                        file, wb, reports, excluded, excel_file_map, nbp)

-----------------------------------------------------------------------------
(* recreate_workbooks, lines 896-1047: the body of "for file in             *)
(* excel_files".  A reconstructed workbook is [sheets |-> s], s mapping a   *)
(* sheet title to the sheet's cells: coordinate -> value installed.         *)

output_dir == "output"

\* line 1014: os.path.join(output_dir, f"{base_name}_recreated.xlsx")
output_file(file) == output_dir \o "/" \o splitext(basename(file))[1] \o "_recreated.xlsx"

\* lines 956-959: formula_value, or the exception of fix_external_references
FormulaValue(row, excel_file_map, nbp) ==
    IF nbp # "" THEN fix_external_references(row.value, excel_file_map, nbp)
    ELSE [raised |-> FALSE, value |-> row.value]

\* a loop whose formula cells keep the None of lines 980 and 986
InstalledValueCleared(row, excel_file_map, nbp) ==
    IF row.is_formula THEN NoneValue
    ELSE CoerceStored(row.value)

\* lines 954-1007: the value of ws[coordinate] after the row's turn of the loop
InstalledValue(row, excel_file_map, nbp) ==
    IF row.is_formula THEN StrValue(FormulaValue(row, excel_file_map, nbp).value)
    ELSE CoerceStored(row.value)

\* lines 962-963
is_special_sheet(sheet_name) == sheet_name \in {"MIS-Report", "Part I", "Part II", "Part III"}

\* line 966, on the text read from the store
has_indexed_ref(value) ==
    Contains("[1]", value) \/ Contains("[2]", value) \/ Contains("[3]", value)

\* lines 954-1007: how the row's cell gets its value.  "coerced": lines
\* 994-1007; "direct": line 974; "fallback": the assignments to the attribute
\* formula of lines 982 and 987 raise AttributeError (the Cell class of
\* openpyxl has __slots__ and no such attribute) and line 991 sets the value
InstallBranch(row, sheet_name) ==
    IF ~row.is_formula THEN "coerced"
    ELSE IF is_special_sheet(sheet_name) /\ has_indexed_ref(row.value) THEN "direct"
    ELSE "fallback"

\* SELECT ... FROM cells WHERE sheet_id = ?
CellsOf(t, sheet_id) == {r \in t.cells : r.sheet_id = sheet_id}

\* SELECT ... FROM sheets WHERE workbook_id = ?
SheetsOf(t, workbook_id) == {r \in t.sheets : r.workbook_id = workbook_id}

\* lines 950-1011: the cells of a sheet made of the rows cells_data
RecreatedCells(cells_data, excel_file_map, nbp) ==
    [c \in {r.coordinate : r \in cells_data} |->
        InstalledValue(CHOOSE r \in cells_data : r.coordinate = c, excel_file_map, nbp)]

\* lines 1009-1011: the style of a cell made by ws[coordinate], after the
\* row's turn of the loop
InstalledStyle(row) == apply_formatting(DefaultStyle, row.formatting)

\* lines 950-1011: the styles of the cells of a sheet made of the rows
\* cells_data
RecreatedStyles(cells_data) ==
    [c \in {r.coordinate : r \in cells_data} |->
        InstalledStyle(CHOOSE r \in cells_data : r.coordinate = c)]

\* the styles of the cells of new_wb
RecreatedSheetStyles(t, sheets_info) ==
    IF sheets_info = {} THEN "Sheet" :> <<>>
    ELSE [n \in {x.sheet_name : x \in sheets_info} |->
            RecreatedStyles(CellsOf(t, (CHOOSE x \in sheets_info : x.sheet_name = n).id))]

\* the rows of the workbook's sheets on which line 957 raises
RaisingRows(t, sheets_info, excel_file_map, nbp) ==
    {r \in t.cells : /\ r.sheet_id \in {x.id : x \in sheets_info}
                     /\ r.is_formula
                     /\ FormulaValue(r, excel_file_map, nbp).raised}

\* the branch taken for every cell of every sheet of sheets_info
RecreatedBranches(t, sheets_info) ==
    [n \in {x.sheet_name : x \in sheets_info} |->
        [c \in {r.coordinate : r \in CellsOf(t, (CHOOSE x \in sheets_info : x.sheet_name = n).id)} |->
            InstallBranch(CHOOSE r \in CellsOf(t, (CHOOSE x \in sheets_info : x.sheet_name = n).id) :
                              r.coordinate = c, n)]]

\* lines 1019-1035: the helper sheet of the report workbook
LinksSheet(file) ==
    IF Contains("Form X Report", file)
    THEN "_Links" :> ("A1" :> StrValue("Workbook Index References")
                      @@ "A2" :> StrValue("[1] = Deposits Data Lite.xlsx")
                      @@ "A3" :> StrValue("[2] = Loans Data Lite.xlsx")
                      @@ "A4" :> StrValue("[3] = Form X Report  Main Lite.xlsx"))
    ELSE <<>>

\* lines 918-1011: new_wb; the default sheet stays when there is no sheet row
RecreatedSheets(t, sheets_info, excel_file_map, nbp) ==
    IF sheets_info = {} THEN "Sheet" :> <<>>
    ELSE [n \in {x.sheet_name : x \in sheets_info} |->
            RecreatedCells(CellsOf(t, (CHOOSE x \in sheets_info : x.sheet_name = n).id),
                           excel_file_map, nbp)]

RecreateFrom(t, file, sheets_info, raising, excel_file_map, nbp) ==
    IF raising # {}
    THEN [found |-> TRUE, raised |-> TRUE, value |-> "IndexError"]
    ELSE [found |-> TRUE, raised |-> FALSE, value |-> "",
          workbook |-> [sheets |-> LinksSheet(file)
                                   @@ RecreatedSheets(t, sheets_info, excel_file_map, nbp),
                        styles |-> [c \in {"_Links"} \cap DOMAIN LinksSheet(file) |->
                                       [a \in DOMAIN LinksSheet(file)[c] |-> DefaultStyle]]
                                   @@ RecreatedSheetStyles(t, sheets_info)],
          branches |-> RecreatedBranches(t, sheets_info)]

RecreateSheetsOf(t, file, sheets_info, excel_file_map, nbp) ==
    RecreateFrom(t, file, sheets_info, RaisingRows(t, sheets_info, excel_file_map, nbp),
                 excel_file_map, nbp)

\* lines 897-1011 for one file: found is FALSE when the file has no row
\* (line 904), raised is TRUE when fix_external_references raised
RecreateWorkbook(t, file, excel_file_map, nbp) ==
    IF {w \in t.workbooks : w.filename = file} = {}
    THEN [found |-> FALSE, raised |-> FALSE, value |-> ""]
    ELSE RecreateSheetsOf(t, file, SheetsOf(t, WorkbookId(t, file)), excel_file_map, nbp)

\* fix_font_colors, lines 494-539: the workbook saved; every cell of wb has a
\* value, the cells that the loops of lines 507-509 make are empty and are
\* skipped
fix_font_colors(wb) ==
    [wb EXCEPT !.styles = [n \in DOMAIN wb.styles |->
                              [c \in DOMAIN wb.styles[n] |-> FixedFont(wb.styles[n][c])]]]

\* fix_font_colors, lines 535-536: the name of the fixed file
fixed_file(excel_file) == splitext(excel_file)[1] \o "_fixed" \o splitext(excel_file)[2]

-----------------------------------------------------------------------------
(* Direct calls of fix_external_references: the arguments *)

\* no second call has been made
NotCalled == [called |-> FALSE, raised |-> FALSE, value |-> ""]

\* the last one is a directory with an apostrophe in its name
BasePaths == {"", "C:\\New\\", "D:\\", "C:\\O'Neil\\"}

\* what stands before and after the reference in the formula
Affixes == { <<"", "">>, <<"=", "">>, <<"=SUM(", ")">> }

RefPaths == {"", "C:\\Old\\"}

RefFileNames ==
    { "Deposits Data Lite.xlsx", "deposits data lite.XLSX", "Loans Data Lite",
      "Form X Report (Main) Lite.xlsx", "Data Lite", "x", " ",
      "Other.xlsx", "Budget 2024.xlsx", "1" }

RefSheets == {"Sheet1", "Part I", "Deposits"}

RefRanges == {"A1:A5", "$L:$L"}

RefIndexes == {"1", "2", "3", "4", "12"}

LooseNames == {"Deposits Data Lite", "loansdatalite", "Other File"}

LooseTrailing == {" Sheet1", "-Notes"}

PlainFormulas == {"", "=A1+B2", "=SUM(A1:A5)", "Total.xls", "=IF(A1>0,\"a\",\"b\")"}

Part(kind, affix, path, name, sheet, range) ==
    [kind |-> kind, prefix |-> affix[1], suffix |-> affix[2], path |-> path,
     name |-> name, sheet |-> sheet, range |-> range]

CallParts ==
    {Part("standard", a, p, n, s, r) :
        a \in Affixes, p \in RefPaths, n \in RefFileNames, s \in RefSheets, r \in RefRanges}
    \cup {Part("unquoted", a, "", n, s, r) :
        a \in Affixes, n \in RefFileNames, s \in RefSheets, r \in RefRanges}
    \cup {Part("indexed", a, "", n, s, r) :
        a \in Affixes, n \in RefIndexes, s \in RefSheets, r \in RefRanges}
    \cup {Part("loose", a, "", n, s, "") :
        a \in Affixes, n \in LooseNames, s \in LooseTrailing}
    \cup {Part("plain", <<"", "">>, "", n, "", "") : n \in PlainFormulas}

\* the reference that the parts spell
RefText(p) ==
    CASE p.kind = "standard" ->
            "'" \o p.path \o "[" \o p.name \o "]" \o p.sheet \o "'!" \o p.range
      [] p.kind = "unquoted" -> "[" \o p.name \o "]" \o p.sheet \o "!" \o p.range
      [] p.kind = "indexed" -> "[" \o p.name \o "]" \o p.sheet \o "!" \o p.range
      [] p.kind = "loose" -> p.name \o ".xlsx" \o p.sheet
      [] OTHER -> p.name

FormulaText(p) == p.prefix \o RefText(p) \o p.suffix

RwInit ==
    /\ excel_files \in Catalogs
    /\ report_sheets = SetValue(ConfiguredReportSheets)
    /\ exclude_sheets = ConfiguredExcludeSheets
    /\ new_base_path \in BasePaths
    /\ parts \in CallParts
    /\ formula = FormulaText(parts)
    /\ rw_pc = "call"
    /\ after_standard = ""
    /\ after_indexed = ""
    /\ updated_formula = ""
    /\ rewritten_again = NotCalled
    /\ pc = "call"
    /\ error = ""
    /\ file_idx = 0
    /\ workbooks = <<>>
    /\ workbook_data = <<>>
    /\ db = NoStore
    /\ output = <<>>
    /\ recreated_files = <<>>
    /\ fixed_files = <<>>
    /\ install_log = <<>>
    /\ output_dir_exists = FALSE
    /\ json_file = NoFile
    /\ unwritable = {}
    /\ save_log = <<>>
    /\ fmt_pc = "off"
    /\ src_cell = DefaultStyle
    /\ fmt_record = extract_cell_formatting_phase2(DefaultStyle)
    /\ target = DefaultStyle
    /\ color_string = ""
    /\ argb = None

\* the local updated_formula after each of the lines 129, 130 and 131
CallTrace(f, excel_file_map, nbp) ==
    [standard |-> StandardPass(f, excel_file_map, nbp),
     indexed |-> IndexedPass(StandardPass(f, excel_file_map, nbp), nbp),
     result |-> fix_external_references(f, excel_file_map, nbp)]

CallEnds(t) ==
    /\ rw_pc' = IF t.result.raised THEN "raised" ELSE "returned"
    /\ after_standard' = t.standard
    /\ after_indexed' = t.indexed
    /\ updated_formula' = t.result.value

\* a call fix_external_references(formula, excel_file_map) with the catalog
\* that store_data and recreate_workbooks build (lines 681-692, 865-876)
Call ==
    /\ rw_pc = "call"
    /\ CallEnds(CallTrace(formula, excel_file_map_of(excel_files), new_base_path))
    /\ UNCHANGED <<excel_files, report_sheets, exclude_sheets, new_base_path, formula, parts,
                   rewritten_again>>
    /\ UNCHANGED <<run_vars, fmt_vars>>

\* a call fix_external_references(updated_formula, excel_file_map) on the text
\* that the first call returned, as recreate_workbooks makes it (lines
\* 956-957) on the text that store_data stored (line 786)
CallAgain ==
    /\ rw_pc = "returned"
    /\ ~rewritten_again.called
    /\ rewritten_again' =
          [called |-> TRUE] @@
          fix_external_references(updated_formula, excel_file_map_of(excel_files), new_base_path)
    /\ UNCHANGED <<config, new_base_path, formula, parts, rw_pc, after_standard, after_indexed,
                   updated_formula>>
    /\ UNCHANGED <<run_vars, fmt_vars>>

RwNext == Call \/ CallAgain

SpecRewrite == RwInit /\ [][RwNext]_vars

-----------------------------------------------------------------------------
(* Runs of main: the input files *)

\* longest text of the texts enumerated for a cell
MaxTextLen == 3

TextChars == {"0", "7", ".", "-", "e", " "}

RECURSIVE TextsOfLen(_)
TextsOfLen(k) == IF k = 0 THEN {""} ELSE {c \o t : c \in TextChars, t \in TextsOfLen(k - 1)}

NamedTexts ==
    {"true", "TRUE", "True", "false", "False", "fALSE", "007", "3.50", "1e5", "-12",
     "nan", "NaN", "inf", "-inf", "Infinity", "abc", "Balance", "12abc", "3.5.0", "1,5"}

\* the values a cell of an input sheet is given
CellTexts == NamedTexts \cup UNION {TextsOfLen(k) : k \in 1..MaxTextLen}

CellNumbers ==
    {IntValue(0), IntValue(7), IntValue(-12), FloatValue(35, -1), FloatValue(1, 2),
     FloatValue(-5, -2), BoolValue(TRUE), BoolValue(FALSE)}

CellValues == {StrValue(x) : x \in CellTexts} \cup CellNumbers

\* the formulas a cell of the report sheet is given
CellFormulas ==
    {"=SUM(A1:A2)",
     "='C:\\Old\\[Deposits Data Lite.xlsx]Deposits'!A1:A5",
     "=SUM([1]Deposits!$L:$L)",
     "=[2]Loans!A1+[7]Other!A1",
     "=Deposits Data Lite.xlsx Sheet1",
     "=\"see Loans Data Lite.xlsx for details\""}

\* the styles of the formatted cells of the inputs
HeaderStyle ==
    CellStyle("General",
              Font("Arial", "14", "True", None, None, Rgb("00FF0000")),
              PatternFill("solid", Rgb("0000FF00"), Rgb("0000FF00")),
              Alignment("center", "center", None),
              Border(Side("thin", Rgb("000000FF")), Side("thin", Rgb("000000FF")),
                     Side("thin", Rgb("000000FF")), Side("thin", Rgb("000000FF"))))

TotalStyle ==
    CellStyle("0.00",
              Font("Calibri", "11", None, "True", "single", Theme("4")),
              PatternFill("solid", Rgb("00FFFF00"), Rgb("00FFFFFF")),
              Alignment("right", None, "True"),
              Border(Side("medium", Rgb("0000FFFF")), Side(None, NoColor),
                     Side(None, NoColor), Side(None, NoColor)))

Grid(a1, b1, a2, b2) == <<1, 1>> :> a1 @@ <<1, 2>> :> b1 @@ <<2, 1>> :> a2 @@ <<2, 2>> :> b2

\* the input files, with the value v in Deposits!B1 and the formula f in
\* 'Part I'!A1 and in Notes!A1; Deposits!A1 and 'Part I'!A1 are formatted
Disk(v, f) ==
    "Deposits Data Lite.xlsx" :>
        << Styled(Worksheet("Deposits", 2, 2,
                            Grid(StrValue("Account"), v, IntValue(7), NoneValue)),
                  <<1, 1>>, HeaderStyle),
           Worksheet("Pivot-Borrowings", 1, 1, <<1, 1>> :> StrValue("Total")) >>
    @@ "Form X Report  Main Lite.xlsx" :>
        << Styled(Worksheet("Part I", 2, 1, <<1, 1>> :> StrValue(f) @@ <<2, 1>> :> NoneValue),
                  <<1, 1>>, TotalStyle),
           Worksheet("Notes", 1, 2, <<1, 1>> :> StrValue(f) @@ <<1, 2>> :> StrValue("Form X")) >>
    @@ "Loans Data Lite.xlsx" :>
        << Worksheet("Loans", 1, 2, <<1, 1>> :> FloatValue(35, -1) @@ <<1, 2>> :> BoolValue(TRUE)) >>

Disks == {Disk(v, "=SUM(A1:A2)") : v \in CellValues}
           \cup {Disk(StrValue("Balance"), f) : f \in CellFormulas}

\* the input files with sheets in the Loans workbook whose names differ only
\* in a space, a hyphen and an underscore
DiskWithSheets(titles) ==
    [Disk(StrValue("Balance"), "=SUM(A1:A2)") EXCEPT
        !["Loans Data Lite.xlsx"] =
            @ \o [i \in 1..Len(titles) |->
                     Worksheet(titles[i], 1, 1, <<1, 1>> :> StrValue(titles[i]))]]

SimilarSheetDisks ==
    {DiskWithSheets(<<"A-B", "A B", "A_B">>), DiskWithSheets(<<"A B", "Loans_A">>)}

\* input directories in which a file of the catalog is missing
MissingDisks ==
    {[f \in DOMAIN Disk(StrValue("Balance"), "=SUM(A1:A2)") \ {missing} |->
         Disk(StrValue("Balance"), "=SUM(A1:A2)")[f]] :
     missing \in {"Deposits Data Lite.xlsx", "Loans Data Lite.xlsx"}}

\* the input files whose report sheet holds each of the formulas
FormulaDisks == {Disk(StrValue("Balance"), f) : f \in CellFormulas}

\* the output paths that another program may hold open
LockedPaths ==
    {{}, {"output/Deposits Data Lite_recreated.xlsx"},
     {"output/Loans Data Lite_recreated_fixed.xlsx"}}

\* the paths held open are varied for the input files of FormulaDisks
LockedPathsFor(disk) == IF disk \in FormulaDisks THEN LockedPaths ELSE {{}}

\* what the operator types at line 1116, for each file of the catalog that
\* is asked about
Confirms == {"y", "Y", "n", ""}

\* what the operator types at line 1100
BasePathInputs == {"", "C:\\New", "C:\\New\\", "C:\\O'Neil"}

\* the directory with the apostrophe is typed for the input files of
\* FormulaDisks
BasePathInputsFor(disk) ==
    IF disk \in FormulaDisks THEN BasePathInputs ELSE BasePathInputs \ {"C:\\O'Neil"}

-----------------------------------------------------------------------------
(* Runs of main *)

Init ==
    /\ excel_files \in Catalogs
    /\ report_sheets = SetValue(ConfiguredReportSheets)
    /\ exclude_sheets = ConfiguredExcludeSheets
    /\ new_base_path = ""
    /\ workbooks \in Disks \cup MissingDisks \cup SimilarSheetDisks
    /\ pc = "main"
    /\ error = ""
    /\ file_idx = 0
    /\ workbook_data = <<>>
    /\ db = NoStore
    /\ output = <<>>
    /\ recreated_files = <<>>
    /\ fixed_files = <<>>
    /\ install_log = <<>>
    /\ output_dir_exists = FALSE
    /\ json_file = NoFile
    /\ unwritable \in LockedPathsFor(workbooks)
    /\ save_log = <<>>
    /\ fmt_pc = "off"
    /\ src_cell = DefaultStyle
    /\ fmt_record = extract_cell_formatting_phase2(DefaultStyle)
    /\ target = DefaultStyle
    /\ color_string = ""
    /\ argb = None
    /\ formula = ""
    /\ parts = <<>>
    /\ rw_pc = "off"
    /\ after_standard = ""
    /\ after_indexed = ""
    /\ updated_formula = ""
    /\ rewritten_again = NotCalled

\* the answer as it was typed
AsTyped(path) == path

\* lines 1101-1102
WithBackslash(path) == IF path # "" /\ ~endswith(path, "\\") THEN path \o "\\" ELSE path

\* os.path.exists(file) for a file of the catalog
exists(file, disk) == file \in DOMAIN disk

\* lines 1112-1113: the positions of the catalog the operator is asked about
Asked(files, disk) == {k \in 1..Len(files) : ~exists(files[k], disk)}

\* lines 1116-1119: TRUE when main returns at line 1119, confirms[k] being
\* what the operator types when asked about excel_files[k]
Aborts(confirms) == \E k \in DOMAIN confirms : lower(confirms[k]) # "y"

\* main, lines 1092-1119: the operator's answer becomes new_base_path, the
\* output directory is made, and the operator is asked about every file of
\* the catalog that does not exist
MainStart ==
    /\ pc = "main"
    /\ \E answer \in BasePathInputsFor(workbooks) : new_base_path' = WithBackslash(answer)
    /\ output_dir_exists' = TRUE
    /\ \E confirms \in [Asked(excel_files, workbooks) -> Confirms] :
          pc' = IF Aborts(confirms) THEN "aborted" ELSE "identify"
    /\ UNCHANGED <<config, rw_vars, fmt_vars, error, file_idx, workbooks, workbook_data, db, output,
                   recreated_files, fixed_files, install_log, json_file, unwritable, save_log>>

\* lines 1123 and 562-567: load_workbook raises FileNotFoundError for the
\* first file of the catalog that does not exist, and main catches it
IdentifyFails ==
    /\ pc = "identify"
    /\ \E k \in 1..Len(excel_files) : ~exists(excel_files[k], workbooks)
    /\ error' = "FileNotFoundError"
    /\ pc' = "failed"
    /\ UNCHANGED <<config, rw_vars, fmt_vars, new_base_path, file_idx, workbooks, workbook_data, db, output,
                   recreated_files, fixed_files, install_log, output_dir_exists, json_file,
                   unwritable, save_log>>

\* line 1123: identify_data, lines 546-666, with the snapshot written at
\* lines 662-663
IdentifyData ==
    /\ pc = "identify"
    /\ \A k \in 1..Len(excel_files) : exists(excel_files[k], workbooks)
    /\ workbook_data' = identify_data(excel_files, workbooks, report_sheets.s, exclude_sheets)
    /\ json_file' = [exists |-> TRUE, data |-> workbook_data']
    /\ pc' = "store"
    /\ UNCHANGED <<config, rw_vars, fmt_vars, new_base_path, error, file_idx, workbooks, db, output,
                   recreated_files, fixed_files, install_log, output_dir_exists,
                   unwritable, save_log>>

\* a store_data that sets up the tables before it finds the file locked
StoreLockedAfterSetup ==
    /\ pc = "store"
    /\ db.exists
    /\ db' = StoreFile(EmptyTables)
    /\ error' = "PermissionError"
    /\ pc' = "failed"
    /\ UNCHANGED <<config, rw_vars, fmt_vars, new_base_path, file_idx, workbooks, workbook_data, output,
                   recreated_files, fixed_files, install_log, output_dir_exists, json_file,
                   unwritable, save_log>>

\* store_data, lines 695-701: another program holds the store file, os.remove
\* raises PermissionError and main catches it
StoreLocked ==
    /\ pc = "store"
    /\ db.exists
    /\ db' = db
    /\ error' = "PermissionError"
    /\ pc' = "failed"
    /\ UNCHANGED <<config, rw_vars, fmt_vars, new_base_path, file_idx, workbooks, workbook_data, output,
                   recreated_files, fixed_files, install_log, output_dir_exists, json_file,
                   unwritable, save_log>>

\* store_data, lines 681-704: the store file is removed and set up again
StoreSetup ==
    /\ pc = "store"
    /\ db' = StoreFile(EmptyTables)
    /\ file_idx' = 1
    /\ pc' = "store_loop"
    /\ UNCHANGED <<config, rw_vars, fmt_vars, new_base_path, error, workbooks, workbook_data, output,
                   recreated_files, fixed_files, install_log, output_dir_exists, json_file,
                   unwritable, save_log>>

\* a main that goes on to recreate_workbooks when store_data raised
StoreLoopEndsGoingOn(r) ==
    /\ db' = StoreFile(r.tables)
    /\ IF r.raised
       THEN error' = r.value /\ pc' = "recreate_loop" /\ file_idx' = 1
       ELSE error' = error /\ pc' = pc /\ file_idx' = file_idx + 1

\* lines 707-822 and 1126, 1151: what the turn leaves; an exception leaves
\* store_data and the try statement of main
StoreLoopEnds(r) ==
    /\ db' = StoreFile(r.tables)
    /\ IF r.raised
       THEN error' = r.value /\ pc' = "failed" /\ file_idx' = file_idx
       ELSE error' = error /\ pc' = pc /\ file_idx' = file_idx + 1

\* store_data, lines 707-822: one turn of "for file in excel_files"
StoreLoop ==
    /\ pc = "store_loop"
    /\ file_idx <= Len(excel_files)
    /\ StoreLoopEnds(StoreWorkbook(db.tables, excel_files[file_idx],
                                   workbooks[excel_files[file_idx]],
                                   report_sheets.s, exclude_sheets,
                                   excel_file_map_of(excel_files), new_base_path))
    /\ UNCHANGED <<config, rw_vars, fmt_vars, new_base_path, workbooks, workbook_data, output,
                   recreated_files, fixed_files, install_log, output_dir_exists, json_file,
                   unwritable, save_log>>

\* store_data returns (lines 824-847) and recreate_workbooks starts (lines
\* 859-893)
StoreReturns ==
    /\ pc = "store_loop"
    /\ file_idx > Len(excel_files)
    /\ report_sheets' = ReportSheetsAfterSummary(db.tables, report_sheets)
    /\ recreated_files' = <<>>
    /\ file_idx' = 1
    /\ pc' = "recreate_loop"
    /\ UNCHANGED <<excel_files, exclude_sheets, rw_vars, fmt_vars, new_base_path, error, workbooks, workbook_data, db, output,
                   fixed_files, install_log, output_dir_exists, json_file,
                   unwritable, save_log>>

\* lines 1037-1047: new_wb.save raises when the path cannot be written
Saved(r, path) == r.found /\ ~r.raised /\ path \notin unwritable

\* a loop that lists the path of a workbook whether or not its save
\* succeeded
RecreateLoopEndsListingAll(r, path) ==
    /\ error' = IF r.raised THEN r.value ELSE error
    /\ pc' = IF r.raised THEN "failed" ELSE pc
    /\ file_idx' = IF r.raised THEN file_idx ELSE file_idx + 1
    /\ output' = IF Saved(r, path) THEN path :> r.workbook @@ output ELSE output
    /\ recreated_files' = IF r.found /\ ~r.raised THEN Append(recreated_files, path)
                          ELSE recreated_files
    /\ install_log' = IF Saved(r, path) THEN path :> r.branches @@ install_log
                      ELSE install_log
    /\ save_log' = IF r.raised THEN save_log
                   ELSE Append(save_log, IF ~r.found THEN "skipped"
                                         ELSE IF path \in unwritable THEN "save_failed"
                                         ELSE "saved")

\* lines 904-906 and 1013-1047: what the turn leaves
RecreateLoopEnds(r, path) ==
    /\ error' = IF r.raised THEN r.value ELSE error
    /\ pc' = IF r.raised THEN "failed" ELSE pc
    /\ file_idx' = IF r.raised THEN file_idx ELSE file_idx + 1
    /\ output' = IF Saved(r, path) THEN path :> r.workbook @@ output ELSE output
    /\ recreated_files' = IF Saved(r, path) THEN Append(recreated_files, path)
                          ELSE recreated_files
    /\ install_log' = IF Saved(r, path) THEN path :> r.branches @@ install_log
                      ELSE install_log
    /\ save_log' = IF r.raised THEN save_log
                   ELSE Append(save_log, IF ~r.found THEN "skipped"
                                         ELSE IF path \in unwritable THEN "save_failed"
                                         ELSE "saved")

\* recreate_workbooks, lines 896-1047: one turn of "for file in excel_files"
RecreateLoop ==
    /\ pc = "recreate_loop"
    /\ file_idx <= Len(excel_files)
    /\ RecreateLoopEnds(RecreateWorkbook(db.tables, excel_files[file_idx],
                                         excel_file_map_of(excel_files), new_base_path),
                        output_file(excel_files[file_idx]))
    /\ UNCHANGED <<config, rw_vars, fmt_vars, new_base_path, workbooks, workbook_data, db, fixed_files,
                   output_dir_exists, json_file, unwritable>>

\* recreate_workbooks returns, lines 1049-1053
RecreateReturns ==
    /\ pc = "recreate_loop"
    /\ file_idx > Len(excel_files)
    /\ file_idx' = 0
    /\ pc' = "fonts"
    /\ UNCHANGED <<config, rw_vars, fmt_vars, new_base_path, error, workbooks, workbook_data, db, output,
                   recreated_files, fixed_files, install_log, output_dir_exists, json_file,
                   unwritable, save_log>>

\* lines 539 and 1074: wb.save raises when the fixed file cannot be written,
\* and fix_workbook_fonts goes on with the next file
FixSaved(file) == fixed_file(file) \notin unwritable

\* a fix_workbook_fonts that lists the fixed file of every recreated file
FixedFilesListingAll(files) == [i \in 1..Len(files) |-> fixed_file(files[i])]

\* lines 1067-1075: the list fixed_files for the list recreated_files
FixedFiles(files) ==
    [i \in 1..Len(SelectSeq(files, FixSaved)) |-> fixed_file(SelectSeq(files, FixSaved)[i])]

\* fix_workbook_fonts, lines 1058-1085: every recreated file is loaded and
\* saved under the name of its fixed file
FixWorkbookFonts ==
    /\ pc = "fonts"
    /\ fixed_files' = FixedFiles(recreated_files)
    /\ output' = [q \in Range(FixedFiles(recreated_files)) |->
                     fix_font_colors(output[CHOOSE f \in Range(recreated_files) :
                                                fixed_file(f) = q])]
                 @@ output
    /\ pc' = "done"
    /\ UNCHANGED <<config, rw_vars, fmt_vars, new_base_path, error, file_idx, workbooks, workbook_data, db,
                   recreated_files, install_log, output_dir_exists, json_file,
                   unwritable, save_log>>

\* the script is started again: the globals and locals are new, the files
\* are those the earlier run left
Rerun ==
    /\ pc \in {"done", "failed", "aborted"}
    /\ pc' = "main"
    /\ report_sheets' = SetValue(ConfiguredReportSheets)
    /\ new_base_path' = ""
    /\ error' = ""
    /\ file_idx' = 0
    /\ workbook_data' = <<>>
    /\ recreated_files' = <<>>
    /\ fixed_files' = <<>>
    /\ install_log' = <<>>
    /\ save_log' = <<>>
    /\ UNCHANGED <<excel_files, exclude_sheets, rw_vars, fmt_vars, workbooks, db, output, output_dir_exists, json_file,
                   unwritable>>

Next ==
    \/ MainStart
    \/ IdentifyFails
    \/ IdentifyData
    \/ StoreLocked
    \/ StoreSetup
    \/ StoreLoop
    \/ StoreReturns
    \/ RecreateLoop
    \/ RecreateReturns
    \/ FixWorkbookFonts
    \/ Rerun

Spec == Init /\ [][Next]_vars

-----------------------------------------------------------------------------
(* Direct calls of the formatting functions: the cells and the records *)

FontColors == {NoColor, Rgb("00FF0000"), Rgb("FFFF00FF"), Theme("1"), Indexed("64")}

\* <<number format, font without its colour>>
NumberFormatsAndFonts ==
    {<<"General", Font("Calibri", "11", "False", "False", None, NoColor)>>,
     <<"0.00", Font("Arial", "14", "True", None, "single", NoColor)>>}

Fills ==
    {PatternFill(None, Rgb("00000000"), Rgb("00000000")),
     PatternFill("solid", Rgb("0000FF00"), Rgb("0000FF00")),
     PatternFill("solid", Rgb("00FFFF00"), Rgb("00FFFFFF")),
     PatternFill("solid", Theme("4"), Indexed("64"))}

Alignments ==
    {Alignment(None, None, None), Alignment("center", "center", None),
     Alignment("right", None, "True")}

Borders ==
    {Border(Side(None, NoColor), Side(None, NoColor), Side(None, NoColor), Side(None, NoColor)),
     Border(Side("thin", Rgb("000000FF")), Side("thin", Rgb("000000FF")),
            Side("thin", Rgb("000000FF")), Side("thin", Rgb("000000FF"))),
     Border(Side("medium", Theme("4")), Side(None, NoColor),
            Side(None, NoColor), Side(None, NoColor)),
     Border(Side(None, NoColor), Side(None, NoColor),
            Side("dashed", NoColor), Side("thin", Rgb("FF00FFFF")))}

\* the cells that are read
FormatCells ==
    {CellStyle(nf[1], [nf[2] EXCEPT !.color = c], f, a, b) :
        nf \in NumberFormatsAndFonts, c \in FontColors, f \in Fills, a \in Alignments,
        b \in Borders}

\* a record of script.py with the font colour, the fill, the horizontal
\* alignment and the style of the top side given
Record(font_color, fill_type, fill_color, horizontal, top_style) ==
    [number_format |-> "0.00",
     font |-> [name |-> "Arial", size |-> "14", bold |-> "True", italic |-> None,
               underline |-> None, color |-> font_color],
     fill |-> [fill_type |-> fill_type, start_color |-> fill_color, end_color |-> NoneInfo],
     alignment |-> [horizontal |-> horizontal, vertical |-> None, wrap_text |-> "True"],
     border |-> [top |-> [style |-> top_style, color |-> NoneInfo],
                 bottom |-> [style |-> None, color |-> NoneInfo],
                 left |-> [style |-> None, color |-> NoneInfo],
                 right |-> [style |-> None, color |-> NoneInfo]]]

\* the records that are applied: those of three cells, and records with
\* colours, types and styles that extract_cell_formatting_phase2 does not
\* write
Records ==
    {extract_cell_formatting_phase2(DefaultStyle),
     extract_cell_formatting_phase2(HeaderStyle),
     extract_cell_formatting_phase2(TotalStyle),
     Record(ColorInfo("rgb", " FF0000 "), "solid", ColorInfo("rgb", "00FF00"), "left", "thin"),
     Record(ColorInfo("rgb", "GGGGGG"), "none", ColorInfo("rgb", "00FF00"), None, None),
     Record(ColorInfo("rgb", "FF00"), "solid", ColorInfo("theme", "4"), "center", "dashed"),
     Record(ColorInfo("theme", "1"), "solid", ColorInfo("rgb", "red"), "justified", "thin"),
     Record(ColorInfo("indexed", "64"), "shaded", ColorInfo("rgb", "FFFF00"), "right", "wavy")}

\* the cells that are written
Targets == {DefaultStyle, HeaderStyle, TotalStyle}

FmtInit ==
    /\ fmt_pc = "start"
    /\ src_cell \in FormatCells
    /\ fmt_record \in Records
    /\ target \in Targets
    /\ color_string = ""
    /\ argb = None
    /\ excel_files = ConfiguredFiles
    /\ report_sheets = SetValue(ConfiguredReportSheets)
    /\ exclude_sheets = ConfiguredExcludeSheets
    /\ new_base_path = ""
    /\ formula = ""
    /\ parts = <<>>
    /\ rw_pc = "off"
    /\ after_standard = ""
    /\ after_indexed = ""
    /\ updated_formula = ""
    /\ rewritten_again = NotCalled
    /\ pc = "call"
    /\ error = ""
    /\ file_idx = 0
    /\ workbooks = <<>>
    /\ workbook_data = <<>>
    /\ db = NoStore
    /\ output = <<>>
    /\ recreated_files = <<>>
    /\ fixed_files = <<>>
    /\ install_log = <<>>
    /\ output_dir_exists = FALSE
    /\ json_file = NoFile
    /\ unwritable = {}
    /\ save_log = <<>>

\* store_data, line 789: the record of the cell that is read
Extract ==
    /\ fmt_pc = "start"
    /\ target = DefaultStyle
    /\ fmt_record' = extract_cell_formatting_phase2(src_cell)
    /\ fmt_pc' = "extracted"
    /\ UNCHANGED <<config, new_base_path, rw_vars, run_vars, color_string, argb, src_cell, target>>

\* recreate_workbooks, line 1011: the record is applied to the cell that is
\* written; after Extract that cell is a new one
Apply ==
    /\ fmt_pc \in {"start", "extracted"}
    /\ target' = apply_formatting(target, fmt_record)
    /\ fmt_pc' = IF fmt_pc = "start" THEN "applied" ELSE "copied"
    /\ UNCHANGED <<config, new_base_path, rw_vars, run_vars, color_string, argb, src_cell, fmt_record>>

\* the record is applied once more to the same cell
ApplyAgain ==
    /\ fmt_pc \in {"applied", "copied"}
    /\ target' = apply_formatting(target, fmt_record)
    /\ fmt_pc' = "applied_twice"
    /\ UNCHANGED <<config, new_base_path, rw_vars, run_vars, color_string, argb, src_cell, fmt_record>>

\* fix_font_colors, lines 509-530, on the cell that is read
FixFont ==
    /\ fmt_pc = "start"
    /\ target' = FixedFont(src_cell)
    /\ fmt_pc' = "fixed"
    /\ UNCHANGED <<config, new_base_path, rw_vars, run_vars, color_string, argb, src_cell, fmt_record>>

\* test_preservation_of_formatting, lines 246-266: the formatting of the
\* cell that is read is extracted and applied to a new cell
TestCopy ==
    /\ fmt_pc = "start"
    /\ target = DefaultStyle
    /\ target' = apply_formatting_dict(target, extract_cell_formatting(src_cell))
    /\ fmt_pc' = "test_copied"
    /\ UNCHANGED <<config, new_base_path, rw_vars, run_vars, color_string, argb, src_cell, fmt_record>>

\* fix_font_colors_only, lines 165-179, on the cell that is read
TestFixFont ==
    /\ fmt_pc = "start"
    /\ target' = fix_font_colors_only(src_cell)
    /\ fmt_pc' = "test_fixed"
    /\ UNCHANGED <<config, new_base_path, rw_vars, run_vars, color_string, argb, src_cell, fmt_record>>

FmtNext ==
    \/ Extract
    \/ Apply
    \/ ApplyAgain
    \/ FixFont
    \/ TestCopy
    \/ TestFixFont

SpecFormat == FmtInit /\ [][FmtNext]_vars

-----------------------------------------------------------------------------
(* Direct calls of ensure_argb_format: the colour strings *)

\* what stands before the digits of a colour string
ColorPrefixes == {"", "#", "0x", "FF", " "}

ColorDigits == {"", "FF0000", "00ff00", "12345", "1234567", "80FF0000", "GGGGGG", "red"}

\* what stands after them
ColorSuffixes == {"", " ", "Z"}

ColorStrings == {p \o h \o q : p \in ColorPrefixes, h \in ColorDigits, q \in ColorSuffixes}

ColorInit ==
    /\ fmt_pc = "color"
    /\ color_string \in ColorStrings
    /\ argb = None
    /\ src_cell = DefaultStyle
    /\ fmt_record = extract_cell_formatting_phase2(DefaultStyle)
    /\ target = DefaultStyle
    /\ excel_files = ConfiguredFiles
    /\ report_sheets = SetValue(ConfiguredReportSheets)
    /\ exclude_sheets = ConfiguredExcludeSheets
    /\ new_base_path = ""
    /\ formula = ""
    /\ parts = <<>>
    /\ rw_pc = "off"
    /\ after_standard = ""
    /\ after_indexed = ""
    /\ updated_formula = ""
    /\ rewritten_again = NotCalled
    /\ pc = "call"
    /\ error = ""
    /\ file_idx = 0
    /\ workbooks = <<>>
    /\ workbook_data = <<>>
    /\ db = NoStore
    /\ output = <<>>
    /\ recreated_files = <<>>
    /\ fixed_files = <<>>
    /\ install_log = <<>>
    /\ output_dir_exists = FALSE
    /\ json_file = NoFile
    /\ unwritable = {}
    /\ save_log = <<>>

\* test_excel_formatting.py, lines 7-22: a call ensure_argb_format(color_str)
EnsureArgb ==
    /\ fmt_pc = "color"
    /\ argb' = ensure_argb_format(color_string)
    /\ fmt_pc' = "normalised"
    /\ UNCHANGED <<config, new_base_path, rw_vars, run_vars, color_string, src_cell, fmt_record,
                   target>>

ColorNext == EnsureArgb

SpecColor == ColorInit /\ [][ColorNext]_vars

-----------------------------------------------------------------------------
(* Properties of fix_external_references, checked under SpecRewrite *)

\* the comparison form of a filename: lower case, no spaces, no parentheses
Normalised(s) == Remove(Remove(Remove(lower(s), ")"), "("), " ")

\* the catalog entries a filename matches: one normalised name is a substring
\* of the other
MatchingEntries(name, map) ==
    {i \in 1..Len(map) :
        \/ Contains(Normalised(name), Normalised(map[i][1]))
        \/ Contains(Normalised(map[i][1]), Normalised(name))}

Catalog == excel_file_map_of(excel_files)

Rewritten(base, file, p) == "'" \o base \o "[" \o file \o "]" \o p.sheet \o "'!" \o p.range

\* C1: with the base path empty, fix_external_references returns every
\* formula unchanged, whatever the catalog, also when the formula holds a
\* standard reference whose filename matches a catalog entry.
C1_NoOpWhenBasePathEmpty ==
    (rw_pc # "call" /\ new_base_path = "")
        => (rw_pc = "returned" /\ updated_formula = formula)

IndexedFile(n) ==
    CASE n = "1" -> "Deposits Data Lite.xlsx"
      [] n = "2" -> "Loans Data Lite.xlsx"
      [] n = "3" -> "Form X Report  Main Lite.xlsx"

\* C3: [n]sheet!range becomes 'base[file]sheet'!range when n is a key of the
\* index map (1, 2, 3) and the base path is not empty, file being the mapped
\* filename; with the base path empty or n not in the map the input comes
\* back unchanged; the catalog plays no part in it.
C3_IndexedDialect ==
    (rw_pc # "call" /\ parts.kind = "indexed")
        => /\ rw_pc = "returned"
           /\ updated_formula =
                parts.prefix
                  \o (IF parts.name \in {"1", "2", "3"} /\ new_base_path # ""
                      THEN Rewritten(new_base_path, IndexedFile(parts.name), parts)
                      ELSE RefText(parts))
                  \o parts.suffix

C3_Witness ==
    /\ rw_pc = "returned"
    /\ parts.kind = "indexed"
    /\ parts.name = "2"
    /\ excel_files = RepeatedFiles
    /\ new_base_path = "D:\\"
    /\ updated_formula = parts.prefix \o "'D:\\[Loans Data Lite.xlsx]" \o parts.sheet
                            \o "'!" \o parts.range \o parts.suffix

\* C4: for a text name.xlsx followed by trailing text, neither quoted nor
\* bracketed, fix_external_references returns base + canonical filename +
\* trailing text when the name matches a catalog key and the base path is not
\* empty, and the text unchanged otherwise; it returns a string in both cases.
C4_LooseDialect ==
    (rw_pc # "call" /\ parts.kind = "loose" /\ parts.prefix = "" /\ parts.suffix = "")
        => /\ rw_pc = "returned"
           /\ updated_formula =
                IF MatchingEntries(parts.name \o ".xlsx", Catalog) # {} /\ new_base_path # ""
                THEN new_base_path
                       \o Catalog[Min(MatchingEntries(parts.name \o ".xlsx", Catalog))][2]
                       \o parts.sheet
                ELSE formula

-----------------------------------------------------------------------------
(* Properties of the runs of main, checked under Spec *)

\* store_data has returned in this run
StoreReturned == pc \in {"recreate_loop", "fonts", "done"}

\* recreate_workbooks has returned in this run
RecreateReturned == pc \in {"fonts", "done"}

\* a decimal numeral: digits with an optional sign, point and exponent
IsDecimalText(s) == IsNumber(Unsigned(lower(strip(s))))

\* the typed value that the stated precedence gives a stored text
ValueByPrecedence(text) ==
    IF lower(text) = "true" THEN BoolValue(TRUE)
    ELSE IF lower(text) = "false" THEN BoolValue(FALSE)
    ELSE IF isdigit(text) THEN IntValue(int(text))
    ELSE IF IsDecimalText(text) THEN float(text)
    ELSE StrValue(text)

\* the cell that recreate_workbooks made for the row r of the sheet row x of file
RecreatedCell(file, x, r) == output[output_file(file)].sheets[x.sheet_name][r.coordinate]

\* C5: when recreate_workbooks has returned, the cell made in a saved workbook
\* for a stored non-formula row holds the value that the precedence boolean, integer,
\* float, text gives the stored text: "true"/"false" in any case a boolean,
\* else all digits an integer, else a decimal numeral a float, else the text.
C5_CoercionPrecedence ==
    RecreateReturned =>
        \A file \in Range(excel_files) :
            \A x \in SheetsOf(db.tables, WorkbookId(db.tables, file)) :
                \A r \in CellsOf(db.tables, x.id) :
                    (~r.is_formula /\ output_file(file) \in DOMAIN output) =>
                        RecreatedCell(file, x, r) = ValueByPrecedence(r.value)

\* the <<row, col>> of the sheet ws that hold a text to which the round trip
\* identity applies
PlainTextCells(ws) ==
    {rc \in DOMAIN ws.cells :
        /\ ws.cells[rc].t = "str"
        /\ ~startswith(ws.cells[rc].s, "=")
        /\ ~isdigit(ws.cells[rc].s)
        /\ lower(ws.cells[rc].s) \notin {"true", "false"}
        /\ ~IsDecimalText(ws.cells[rc].s)}

\* C6: when store_data and recreate_workbooks have returned, a cell whose
\* text in the input does not start with "=", is not all digits, is not
\* "true"/"false" in any case and is no decimal numeral holds that very text
\* in the reconstructed workbook, where that workbook was saved.
C6_RoundTripIdentity ==
    RecreateReturned =>
        \A file \in Range(excel_files) :
            \A i \in 1..Len(workbooks[file]) :
                (/\ workbooks[file][i].title \notin exclude_sheets
                 /\ output_file(file) \in DOMAIN output) =>
                    \A rc \in PlainTextCells(workbooks[file][i]) :
                        output[output_file(file)].sheets[workbooks[file][i].title]
                              [coordinate(rc[1], rc[2])]
                          = workbooks[file][i].cells[rc]

\* the coordinates of the cells of ws that hold a value
FilledCoordinates(ws) ==
    {coordinate(rc[1], rc[2]) : rc \in {x \in DOMAIN ws.cells : ws.cells[x] # NoneValue}}

\* the coordinates that have a row in the cells table under the sheet
\* sheet_name of the workbook file
StoredCoordinates(t, file, sheet_name) ==
    {r.coordinate : r \in {c \in t.cells :
        \E x \in t.sheets : \E w \in t.workbooks :
            /\ c.sheet_id = x.id /\ x.sheet_name = sheet_name
            /\ x.workbook_id = w.id /\ w.filename = file}}

\* store_data has ended in this run, by returning or by an exception among
\* the cells
StoreEnded == StoreReturned \/ (pc = "failed" /\ error = "IndexError")

\* C7: after store_data, for every sheet of a catalog workbook that is not
\* excluded, the coordinates with a row in the cells table, and those with
\* an entry in the snapshot, are exactly the coordinates of the grid whose
\* cell holds a value.
C7_OnlyFilledCellsStored ==
    StoreEnded =>
        \A file \in Range(excel_files) :
            \A i \in 1..Len(workbooks[file]) :
                workbooks[file][i].title \notin exclude_sheets =>
                    /\ StoredCoordinates(db.tables, file, workbooks[file][i].title)
                         = FilledCoordinates(workbooks[file][i])
                    /\ DOMAIN workbook_data[file].sheets[workbooks[file][i].title].cells
                         = FilledCoordinates(workbooks[file][i])

C10_LockedStoreUnchanged ==
    [][(pc = "store" /\ pc' = "failed") => (error' = "PermissionError" /\ db' = db)]_vars

\* store_data failed on a store that an earlier run had filled
C10_Witness ==
    /\ pc = "failed"
    /\ error = "PermissionError"
    /\ db.exists
    /\ db.tables.cells # {}

\* the <<row, col>> of the sheet ws that hold a formula
FormulaCells(ws) == {rc \in DOMAIN ws.cells : IsFormula(ws.cells[rc])}

\* the text of the input holds one of the workbook indexes [1], [2], [3]
OriginalHasIndex(text) ==
    Contains("[1]", text) \/ Contains("[2]", text) \/ Contains("[3]", text)

\* the branch of recreate_workbooks that set the cell rc of sheet i of file
BranchOf(file, i, rc) ==
    install_log[output_file(file)][workbooks[file][i].title][coordinate(rc[1], rc[2])]

\* C11: when recreate_workbooks has returned, a formula cell was set directly
\* as a plain value (line 974) exactly if it is on one of the sheets
\* MIS-Report, Part I, Part II, Part III and its formula in the input
\* workbook, before any rewrite, contains [1], [2] or [3], with and without
\* a base path; every other formula cell went through the formula branch
\* (lines 977-987).
C11_IndexedReportFormulasPlain ==
    RecreateReturned =>
        \A file \in Range(excel_files) :
            output_file(file) \in DOMAIN install_log =>
                \A i \in 1..Len(workbooks[file]) :
                    workbooks[file][i].title \notin exclude_sheets =>
                        \A rc \in FormulaCells(workbooks[file][i]) :
                            BranchOf(file, i, rc) =
                                IF /\ workbooks[file][i].title
                                        \in {"MIS-Report", "Part I", "Part II", "Part III"}
                                   /\ OriginalHasIndex(workbooks[file][i].cells[rc].s)
                                THEN "direct" ELSE "fallback"

\* the row of the store for the cell at coordinate c of the sheet n of file
StoredRow(file, n, c) ==
    CHOOSE r \in CellsOf(db.tables, SheetId(db.tables, WorkbookId(db.tables, file), n)) :
        r.coordinate = c

\* formula_value of lines 956-959 for the stored text
RewrittenText(value) ==
    IF new_base_path = "" THEN value
    ELSE fix_external_references(value, Catalog, new_base_path).value

\* C12: when recreate_workbooks has returned, a cell whose formula could not
\* be installed (line 991 set it) holds the rewritten formula text as a
\* string, has the style that apply_formatting gives a new cell for the
\* stored formatting record, number format of the input cell included, and
\* every stored cell of its sheet is in the reconstructed sheet.
C12_FormulaFallback ==
    RecreateReturned =>
        \A file \in Range(excel_files) :
            output_file(file) \in DOMAIN install_log =>
                \A i \in 1..Len(workbooks[file]) :
                    workbooks[file][i].title \notin exclude_sheets =>
                        \A rc \in FormulaCells(workbooks[file][i]) :
                            BranchOf(file, i, rc) = "fallback" =>
                                /\ output[output_file(file)].sheets[workbooks[file][i].title]
                                          [coordinate(rc[1], rc[2])]
                                      = StrValue(RewrittenText(
                                            StoredRow(file, workbooks[file][i].title,
                                                      coordinate(rc[1], rc[2])).value))
                                /\ output[output_file(file)].styles[workbooks[file][i].title]
                                          [coordinate(rc[1], rc[2])]
                                      = apply_formatting(DefaultStyle,
                                            StoredRow(file, workbooks[file][i].title,
                                                      coordinate(rc[1], rc[2])).formatting)
                                /\ output[output_file(file)].styles[workbooks[file][i].title]
                                          [coordinate(rc[1], rc[2])].number_format
                                      = workbooks[file][i].styles[rc].number_format
                                /\ \A r \in CellsOf(db.tables,
                                                    SheetId(db.tables, WorkbookId(db.tables, file),
                                                            workbooks[file][i].title)) :
                                       r.coordinate \in DOMAIN output[output_file(file)]
                                                                   .sheets[workbooks[file][i].title]

\* a run with a base path in which line 991 set 'Part I'!A1 to a rewritten
\* formula and gave it the number format of the input cell, and set
\* Notes!A1, after which Notes!B1 was set
C12_Witness ==
    /\ RecreateReturned
    /\ new_base_path = "C:\\New\\"
    /\ "output/Form X Report  Main Lite_recreated.xlsx" \in DOMAIN install_log
    /\ install_log["output/Form X Report  Main Lite_recreated.xlsx"]["Part I"]["A1"] = "fallback"
    /\ install_log["output/Form X Report  Main Lite_recreated.xlsx"]["Notes"]["A1"] = "fallback"
    /\ output["output/Form X Report  Main Lite_recreated.xlsx"].sheets["Part I"]["A1"]
           = StrValue("='C:\\New\\[Deposits Data Lite.xlsx]Deposits'!A1:A5")
    /\ output["output/Form X Report  Main Lite_recreated.xlsx"].styles["Part I"]["A1"].number_format
           = "0.00"
    /\ output["output/Form X Report  Main Lite_recreated.xlsx"].sheets["Notes"]["B1"]
           = StrValue("Form X")

\* the turn k of "for file in excel_files" of store_data has been begun and
\* left in this run
StoreTurnTaken(k) ==
    \/ StoreReturned
    \/ pc = "store_loop" /\ k < file_idx
    \/ pc = "failed" /\ error = "IndexError" /\ k <= file_idx

\* C13: an error in one cell does not stop the other cells of the workbook:
\* once store_data has left the turn of a catalog workbook, every cell of
\* the workbook's sheets (the excluded ones apart) that holds a value has a
\* row in the store, and once recreate_workbooks has returned every stored
\* cell of the workbook is in the reconstructed sheet; main caught no
\* exception that a cell raised.
C13_CellErrorsContained ==
    /\ pc = "failed" => error # "IndexError"
    /\ \A k \in 1..Len(excel_files) :
          StoreTurnTaken(k) =>
              \A i \in 1..Len(workbooks[excel_files[k]]) :
                  workbooks[excel_files[k]][i].title \notin exclude_sheets =>
                      FilledCoordinates(workbooks[excel_files[k]][i])
                          \subseteq StoredCoordinates(db.tables, excel_files[k],
                                                      workbooks[excel_files[k]][i].title)
    /\ RecreateReturned =>
          \A file \in Range(excel_files) :
              \A i \in 1..Len(workbooks[file]) :
                  workbooks[file][i].title \notin exclude_sheets =>
                      FilledCoordinates(workbooks[file][i])
                          \subseteq DOMAIN output[output_file(file)].sheets[workbooks[file][i].title]

\* main has ended after running its phases
MainEnded == pc \in {"done", "failed"}

\* C14: an error that concerns one workbook does not abort the batch: when
\* main has ended, and no error of the store file or of a cell ended it,
\* every catalog workbook that exists and whose output path can be written
\* has been reconstructed and normalised in this run, whatever happened to
\* the other workbooks of the catalog.
C14_WorkbookErrorsContained ==
    (MainEnded /\ error \notin {"PermissionError", "IndexError"}) =>
        \A file \in Range(excel_files) :
            (exists(file, workbooks) /\ output_file(file) \notin unwritable) =>
                /\ output_file(file) \in Range(recreated_files)
                /\ fixed_file(output_file(file)) \in Range(fixed_files)

\* C15: when a file of the catalog does not exist and the operator answers
\* anything but y, the step in which main returns (line 1119) leaves the
\* output directory, the store file, the snapshot file, the files of the
\* output directory and the input workbooks as they were when main started.
C15_DeclinedRunChangesNothing ==
    [][(pc = "main" /\ pc' = "aborted") =>
          UNCHANGED <<output_dir_exists, db, json_file, output, workbooks>>]_vars

\* the workbooks of the catalog, in catalog order, that have a row in the
\* store and whose output path can be written
Reconstructible ==
    SelectSeq(excel_files,
              LAMBDA f : /\ \E w \in db.tables.workbooks : w.filename = f
                         /\ ("output/" \o splitext(basename(f))[1] \o "_recreated.xlsx")
                                \notin unwritable)

SideNames == {"top", "bottom", "left", "right"}

\* the cell has an RGB font colour, a solid fill with an RGB start colour,
\* and border sides with a style, each with an RGB colour
FullyColoured(cell) ==
    /\ cell.font.color.kind = "rgb"
    /\ cell.fill.fill_type = "solid"
    /\ cell.fill.start_color.kind = "rgb"
    /\ \E n \in SideNames : cell.border[n].style # None
    /\ \A n \in SideNames : cell.border[n].style # None => cell.border[n].color.kind = "rgb"

\* an 8-digit ARGB colour
IsARGB(color) == color.kind = "rgb" /\ Len(color.rgb) = 8 /\ IsHex(color.rgb)

\* C17: for a cell with an RGB font colour, a solid fill with an RGB start
\* colour and styled border sides with RGB colours, the cell made by
\* extracting the cell's record and applying it to a new cell (by the
\* functions of script.py, and by those of test_excel_formatting.py) has
\* the same font colour, fill start colour and border colours, all 8-digit
\* ARGB strings, the same border styles and the same horizontal alignment.
C17_FormattingFidelity ==
    (fmt_pc \in {"copied", "test_copied"} /\ FullyColoured(src_cell)) =>
        /\ target.font.color = src_cell.font.color
        /\ IsARGB(target.font.color)
        /\ target.fill.start_color = src_cell.fill.start_color
        /\ IsARGB(target.fill.start_color)
        /\ \A n \in SideNames :
              /\ target.border[n].style = src_cell.border[n].style
              /\ target.border[n].color = src_cell.border[n].color
        /\ target.alignment.horizontal = src_cell.alignment.horizontal

\* C18: after font normalization (fix_font_colors of script.py,
\* fix_font_colors_only of test_excel_formatting.py) the font colour of a
\* cell that holds a value is the RGB colour FF000000, whatever its font
\* colour was, none included.
C18_FontsOpaqueBlack ==
    fmt_pc \in {"fixed", "test_fixed"} => target.font.color = Rgb("FF000000")

\* C19: font normalization leaves the fill, the border, the alignment, the
\* number format and the font's name, size, bold, italic and underline of
\* the cell as they were: only the font colour may differ.
C19_OnlyFontColourChanges ==
    fmt_pc \in {"fixed", "test_fixed"} =>
        /\ target.fill = src_cell.fill
        /\ target.border = src_cell.border
        /\ target.alignment = src_cell.alignment
        /\ target.number_format = src_cell.number_format
        /\ [target.font EXCEPT !.color = NoColor] = [src_cell.font EXCEPT !.color = NoColor]

\* C20: apply_formatting is idempotent: applying a record to a cell it has
\* already been applied to leaves the number format, the font, the fill,
\* the alignment and the border of the cell as they are.
C20_ApplyIdempotent ==
    [][(fmt_pc \in {"applied", "copied"} /\ fmt_pc' = "applied_twice") => target' = target]_vars

\* a record has been applied twice to a formatted cell that it changed the
\* first time, fill and border included
C20_Witness ==
    /\ fmt_pc = "applied_twice"
    /\ fmt_record = Record(ColorInfo("rgb", " FF0000 "), "solid", ColorInfo("rgb", "00FF00"),
                           "left", "thin")
    /\ target.font.color = Rgb("00FF0000")
    /\ target.fill.start_color = Rgb("0000FF00")
    /\ target.border.top = Side("thin", NoColor)
    /\ target.border.left = Side(None, NoColor)

-----------------------------------------------------------------------------
(* Excluded sheets *)

\* C21: when identify_data, store_data and recreate_workbooks have returned,
\* a sheet name of the exclusion set has no entry in the snapshot, no row in
\* the sheets table, no row in the cells table under such a sheet, no
\* tabular_data row and no export table, and no workbook of the output
\* directory has a sheet of that name.
C21_ExcludedSheetsRemoved ==
    RecreateReturned =>
        \A n \in exclude_sheets :
            /\ \A f \in DOMAIN workbook_data : n \notin DOMAIN workbook_data[f].sheets
            /\ \A x \in db.tables.sheets : x.sheet_name # n
            /\ \A c \in db.tables.cells :
                   \A x \in db.tables.sheets : c.sheet_id = x.id => x.sheet_name # n
            /\ \A r \in db.tables.tabular_data : r.sheet # n
            /\ \A tn \in DOMAIN db.tables.exports : db.tables.exports[tn].sheet # n
            /\ \A p \in DOMAIN output : n \notin DOMAIN output[p].sheets

\* recreate_workbooks has returned and saved the workbook of a file that has
\* an excluded sheet with a value in it
C21_Witness ==
    /\ RecreateReturned
    /\ \E file \in Range(excel_files) :
          /\ output_file(file) \in DOMAIN output
          /\ \E i \in 1..Len(workbooks[file]) :
                /\ workbooks[file][i].title \in exclude_sheets
                /\ \E rc \in DOMAIN workbooks[file][i].cells :
                      workbooks[file][i].cells[rc] # NoneValue

-----------------------------------------------------------------------------
(* The rewriter applied to its own result *)

\* C22: with a non-empty base path, a call of fix_external_references on the
\* text that a call returned returns that same text.
C22_RewriterIdempotent ==
    (rewritten_again.called /\ new_base_path # "")
        => (~rewritten_again.raised /\ rewritten_again.value = updated_formula)

\* C23: for a formula made of a prefix, a quoted or unquoted reference
\* [filename]sheet!range to a workbook of the catalog and a suffix,
\* fix_external_references returns the prefix, the rewritten reference and
\* the suffix: what stands before and after the reference is kept.
C23_OnlyReferenceChanges ==
    (/\ rw_pc # "call"
     /\ parts.kind \in {"standard", "unquoted"}
     /\ MatchingEntries(parts.name, Catalog) # {})
        => /\ rw_pc = "returned"
           /\ updated_formula =
                parts.prefix
                  \o Rewritten(new_base_path,
                               Catalog[Min(MatchingEntries(parts.name, Catalog))][2], parts)
                  \o parts.suffix

\* C24: with a non-empty base path, the text after line 129 is the standard
\* pass of the formula, the text after line 130 is the indexed pass of that
\* text, and what the call returns (or raises) is what the loose pass of the
\* text after line 130 returns (or raises).
C24_PassesInSequence ==
    (rw_pc \in {"returned", "raised"} /\ new_base_path # "") =>
        /\ after_standard = StandardPass(formula, Catalog, new_base_path)
        /\ after_indexed = IndexedPass(after_standard, new_base_path)
        /\ LoosePass(after_indexed, Catalog, new_base_path)
             = [raised |-> rw_pc = "raised", value |-> updated_formula]

\* a call that returned a text which the indexed and loose passes do not give
\* when they are run on the formula itself: the standard pass changed it
C24_Witness ==
    /\ rw_pc = "returned"
    /\ new_base_path # ""
    /\ after_standard # formula
    /\ updated_formula # LoosePass(IndexedPass(formula, new_base_path), Catalog, new_base_path).value

-----------------------------------------------------------------------------
(* The configuration during a run *)

\* C25: no step of identify_data, store_data, recreate_workbooks and
\* fix_workbook_fonts changes the configuration: excel_files, report_sheets
\* and exclude_sheets after the step are what they were before it.
C25_ConfigurationUnchanged ==
    [][(pc \in {"identify", "store", "store_loop", "recreate_loop", "fonts"})
          => (excel_files' = excel_files /\ report_sheets' = report_sheets
                 /\ exclude_sheets' = exclude_sheets)]_vars

-----------------------------------------------------------------------------
(* The order of the phases *)

\* recreate_workbooks and fix_workbook_fonts have not been started in this
\* run: nothing was installed, saved, listed or normalised
NotReconstructing ==
    /\ recreated_files = <<>> /\ fixed_files = <<>>
    /\ save_log = <<>> /\ install_log = <<>>

\* C26: store_data starts only when identify_data has returned its snapshot,
\* recreate_workbooks only when the loop of store_data has ended without an
\* exception, fix_workbook_fonts only when the loop of recreate_workbooks has
\* ended; when identify_data or store_data raises, the run ends with nothing
\* reconstructed or normalised in it and no file of the output directory
\* changed; and every file that fix_workbook_fonts writes is the fixed file
\* of a path that recreate_workbooks saved and returned in this run.
C26_PhasesInOrder ==
    [][/\ (pc' = "store") =>
              (pc = "identify" /\ workbook_data' = identify_data(excel_files, workbooks,
                                                       report_sheets.s, exclude_sheets))
       /\ (pc' = "store_loop") => (pc \in {"store", "store_loop"} /\ NotReconstructing)
       /\ (pc' = "recreate_loop" /\ pc # "recreate_loop") =>
              (pc = "store_loop" /\ file_idx > Len(excel_files) /\ error = "")
       /\ (pc' = "fonts") => (pc = "recreate_loop" /\ file_idx > Len(excel_files))
       /\ (pc \in {"identify", "store", "store_loop"} /\ pc' = "failed") =>
              (NotReconstructing' /\ output' = output)
       /\ (pc = "failed") => (pc' = "main")
       /\ (pc = "fonts") =>
              /\ Range(recreated_files) \subseteq DOMAIN install_log
              /\ \A q \in DOMAIN output' :
                     (q \notin DOMAIN output \/ output'[q] # output[q]) =>
                         \E f \in Range(recreated_files) :
                             q = fixed_file(f) /\ output'[q] = fix_font_colors(output[f])
      ]_vars

\* store_data raised in a run that follows a run which reconstructed and
\* normalised the workbooks
C26_Witness ==
    /\ pc = "failed"
    /\ workbook_data # <<>>
    /\ NotReconstructing
    /\ \E f \in Range(excel_files) : fixed_file(output_file(f)) \in DOMAIN output

-----------------------------------------------------------------------------
(* The tabular exports *)

\* the sheets of the input files that store_data exports: <<file, title>>
ExportedSheets ==
    UNION {{<<file, workbooks[file][i].title>> :
               i \in {k \in 1..Len(workbooks[file]) :
                         workbooks[file][k].title
                             \notin exclude_sheets \cup ConfiguredReportSheets}} :
           file \in Range(excel_files)}

\* C27: when store_data has returned, any two different exported sheets have
\* different table names, and every exported sheet has its export table and
\* its row in tabular_data.
C27_ExportNamesDistinct ==
    StoreReturned =>
        /\ \A p, q \in ExportedSheets : p # q => TableName(p[1], p[2]) # TableName(q[1], q[2])
        /\ \A p \in ExportedSheets :
              /\ TableName(p[1], p[2]) \in DOMAIN db.tables.exports
              /\ db.tables.exports[TableName(p[1], p[2])] = [workbook |-> p[1], sheet |-> p[2]]
              /\ \E r \in db.tables.tabular_data : r.workbook = p[1] /\ r.sheet = p[2]

-----------------------------------------------------------------------------
(* The lists of the final summary *)

\* the entries of a are, in order, what Derived makes of distinct entries of b
DerivedFromDistinct(a, b, Derived(_)) ==
    \E g \in [1..Len(a) -> 1..Len(b)] :
        /\ \A j, k \in 1..Len(a) : j < k => g[j] < g[k]
        /\ \A k \in 1..Len(a) : a[k] = Derived(b[g[k]])

\* C28: when main reaches the final summary, the fixed files are the fixed
\* files of distinct entries of the recreated list and are files of the
\* output directory, the recreated paths are the output paths of distinct
\* entries of the catalog, so that there are at most as many fixed files as
\* recreated files and at most as many recreated files as input files; and
\* there are as many fixed files as input files only when every workbook was
\* saved and every fixed file written.
C28_SummaryCounts ==
    pc = "done" =>
        /\ DerivedFromDistinct(fixed_files, recreated_files, fixed_file)
        /\ DerivedFromDistinct(recreated_files, excel_files, output_file)
        /\ Range(fixed_files) \subseteq DOMAIN output
        /\ Len(fixed_files) <= Len(recreated_files)
        /\ Len(recreated_files) <= Len(excel_files)
        /\ Len(fixed_files) = Len(excel_files) =>
              /\ \A k \in 1..Len(save_log) : save_log[k] = "saved"
              /\ \A k \in 1..Len(recreated_files) : FixSaved(recreated_files[k])

\* a run that reached the final summary with a workbook that was
\* reconstructed and whose fixed file could not be written
C28_Witness ==
    /\ pc = "done"
    /\ Len(recreated_files) = Len(excel_files)
    /\ Len(fixed_files) < Len(recreated_files)

-----------------------------------------------------------------------------
(* Colour normalization, checked under SpecColor *)

\* C29: for a non-empty colour string ensure_argb_format returns 8
\* hexadecimal digits: FF and the string when the string is 6 hexadecimal
\* digits, the string itself when it is 8 hexadecimal digits, and FF000000
\* when the string holds a character that is no hexadecimal digit.
C29_ColourNormalization ==
    (fmt_pc = "normalised" /\ color_string # "") =>
        /\ Len(argb) = 8 /\ IsHex(argb)
        /\ (IsHex(color_string) /\ Len(color_string) = 6) => argb = "FF" \o color_string
        /\ (IsHex(color_string) /\ Len(color_string) = 8) => argb = color_string
        /\ ~IsHex(color_string) => argb = "FF000000"

-----------------------------------------------------------------------------
(* The base path during a run *)

\* C30: the base path is always the empty string or a string that ends with
\* a backslash, and no step of a run after main has read the operator's
\* answer changes it.
C30_BasePathShape ==
    /\ [](new_base_path = "" \/ endswith(new_base_path, "\\"))
    /\ [][(pc # "main" /\ pc' # "main") => new_base_path' = new_base_path]_vars

\* a run that ended with the base path made from the answer C:\O'Neil, which
\* the operator typed without the backslash
C30_Witness ==
    /\ pc = "done"
    /\ new_base_path = "C:\\O'Neil\\"
    /\ fixed_files # <<>>

====
